---- MODULE Spec2Model ----
(***************************************************************************)
(* Chat sessions and views of the FinanceX front end.                      *)
(*                                                                         *)
(* Three chat components exist in the repository:                          *)
(*   "qa"      QAPage                  (src/unnamed/part_002)              *)
(*   "sidebar" ChatSidebar             (Frontend/test-api-connection.js)   *)
(*   "sources" ChatSidebar + CompactSourcesViewer (services/README.md)     *)
(* One behaviour of the model is one mounted component: Init picks the     *)
(* variant, the actions are its event handlers and the continuation of     *)
(* handleSend/handleSubmit that runs when the fetch settles.               *)
(*                                                                         *)
(* Two views are modelled next to the chat, each under a specification of  *)
(* its own in which no chat is mounted: the sources presenters mounted     *)
(* with props of their own (SpecViewer) and the KnowledgeGraph canvas      *)
(* view (SpecGraph, SpecGraphTagged for type tags that name properties of  *)
(* Object.prototype, and SpecRelayout for repeated mounts).  SpecUpload is *)
(* the document upload dialog, PDFUpload; SpecPage is the dashboard page,  *)
(* which mounts the dialog and the graph view and reloads the document     *)
(* after an upload; SpecApp is the chat sidebar next to the graph view.    *)
(*                                                                         *)
(* A string is a sequence of pieces: a piece is one character (" ", "a")   *)
(* or a literal of the source kept whole.  Concatenation is \o, trim       *)
(* removes the white-space pieces at both ends.  An optional value         *)
(* (undefined in the source) is None or Some(v).                           *)
(***************************************************************************)
EXTENDS Naturals, Sequences, FiniteSets, TLC

VARIABLES
    variant,      \* which chat component is mounted
    messages,     \* useState<Message[]>: the transcript
    input,        \* useState(""): the text of the input box (input / message)
    loading,      \* useState(false): the pending flag
    error,        \* QAPage useState<string | null>(null): the last error
    sessionId,    \* QAPage useState(() => `session-...`)
    isOpen,       \* ChatSidebar useState(false): the panel is shown
    showSources,  \* ChatSidebar useState(true): sources are displayed
    viewers,      \* per message, the state of its mounted CompactSourcesViewer
    inflight,     \* the fetch calls that have not settled, oldest first
    issued,       \* number of fetch calls made so far
    sentAt,       \* history: Len(messages) when the last accepted send began
    settled,      \* history: the outcome of the request that settled last
    event,        \* history: the handler that ran last
    presenter,    \* a sources viewer mounted on its own: its props and state
    graphData,    \* KnowledgeGraph useState<GraphData | null>(null)
    graphLoading, \* KnowledgeGraph useState(true)
    graphError,   \* KnowledgeGraph useState<string | null>(null)
    graphFetch,   \* the fetch of the snapshot: "none", "pending" or "settled"
    canvas,       \* the canvas element of the graph view and its container
    renderDue,    \* the render effect is scheduled (graphData changed)
    renderError,  \* the error the render effect threw, which unmounted the view
    nodePositions,\* the Map built by the last run of the render effect
    painted,      \* the draw calls the canvas received since it was last cleared
    layoutRuns,   \* history: input and position map of every run of the layout
    graphFetches, \* history: number of snapshot fetches issued so far
    graphMounts,  \* history: number of times the graph view was mounted
    graphSettled, \* history: the outcome of the snapshot fetch that settled last
    open,         \* PDFUpload useState(false): the dialog is shown
    file,         \* PDFUpload useState<File | null>(null)
    fileType,     \* PDFUpload useState<FileType>("pdf")
    dataType,     \* PDFUpload useState("invoice")
    uploading,    \* PDFUpload useState(false)
    uploadStatus, \* PDFUpload useState("idle"): "idle", "success" or "error"
    errorMessage, \* PDFUpload useState("")
    toast,        \* the title of the toast shown last
    onUploadComplete, \* the prop: "absent" or "reload" (dashboard); "none" unmounted
    uploadRequest,\* the POST that has not settled
    reloadPending,\* window.location.reload() was called, the document is still there
    timers,       \* the pending setTimeout callbacks: the upload that set each
    uploads,      \* history: number of uploads started so far
    uploadSettled,\* history: the outcome of the upload that settled last
    uploadEvent,  \* history: the handler of the dialog that ran last
    firedTimer    \* history: the upload whose timer ran last

\* The variables of the chat session / of the views mounted outside a chat.
chatVars == <<variant, messages, input, loading, error, sessionId,
              isOpen, showSources, viewers, inflight, issued, sentAt, settled, event>>

graphVars == <<graphData, graphLoading, graphError, graphFetch, canvas, renderDue,
               renderError, nodePositions, painted, layoutRuns, graphFetches, graphMounts,
               graphSettled>>

uploadVars == <<open, file, fileType, dataType, uploading, uploadStatus, errorMessage,
                toast, onUploadComplete, uploadRequest, reloadPending, timers, uploads,
                uploadSettled, uploadEvent, firedTimer>>

viewVars == <<presenter, graphVars, uploadVars>>

vars == <<chatVars, viewVars>>

\* ---------------------------------------------------------------- bounds
\* Accepted sends per session in Spec / in SpecReply.
MaxSends == 2
MaxReplySends == 1

\* ------------------------------------------------------- optional values
None == <<>>
Some(x) == <<x>>

\* ---------------------------------------------------------------- strings
IsSpace(c) == c \in {" ", "\n", "\t"}

RECURSIVE TrimStart(_)
TrimStart(s) ==
    IF s = <<>> THEN <<>>
    ELSE IF IsSpace(Head(s)) THEN TrimStart(Tail(s))
    ELSE s

RECURSIVE TrimEnd(_)
TrimEnd(s) ==
    IF s = <<>> THEN <<>>
    ELSE IF IsSpace(s[Len(s)]) THEN TrimEnd(SubSeq(s, 1, Len(s) - 1))
    ELSE s

Trim(s) == TrimEnd(TrimStart(s))

\* JavaScript truthiness of an optional string: undefined and "" are falsy.
Truthy(v) == v # None /\ v[1] # <<>>

\* What the user can have in the input box.
Texts == {<<>>, <<" ", "\n">>, <<"a">>, <<" ", "b", " ">>}

\* ------------------------------------------------------------- variants
Variants == {"qa", "sidebar", "sources"}

SessionIds == {"session-1", "session-2"}

Greeting == <<"Hello! I'm your finance assistant.">>

Fallback == <<"I received your question but couldn't generate a response.">>

RemediationQA == <<"Sorry, I'm having trouble connecting to the knowledge graph. Please ensure: ... Error: ">>

RemediationSidebar == <<"Sorry, I'm having trouble connecting to the knowledge graph. Please make sure the API is running with: python app.py">>

RemediationSources == <<"Sorry, I'm having trouble connecting to the knowledge graph. Please make sure the API is running with: python services/api.py">>

Message(role, content, sources, graphUrl) ==
    [role |-> role, content |-> content, sources |-> sources, graphUrl |-> graphUrl]

\* Mutant: no component seeds a greeting.
InitialMessagesNoSeed(v) == <<>>

InitialMessages(v) ==
    IF v = "qa" THEN <<>>
    ELSE <<Message("assistant", Greeting, None, None)>>

\* ------------------------------------------------- the network's answers
\* A provenance triple of the response body.
Triple(n) == [source |-> <<"INV-", n>>, relationship |-> <<"billed_to">>, target |-> <<"Vendor ", n>>]

ThreeSources == <<Triple("1"), Triple("2"), Triple("3")>>

\* The parsed JSON body: every field is optional.
Data(answer, response, message, detail, sources, graph_url) ==
    [answer |-> answer, response |-> response, message |-> message,
     detail |-> detail, sources |-> sources, graph_url |-> graph_url]

NoData == Data(None, None, None, None, None, None)

\* fetch() rejected: no response was received.
Rejected(msg) ==
    [kind |-> "rejected", errmsg |-> msg, status |-> 0, statusText |-> <<>>,
     parse |-> "invalid", data |-> NoData]

\* fetch() resolved with a response; parse tells what response.json() does:
\* "object" resolves to data, "null" resolves to null, "invalid" rejects.
Http(status, statusText, parse, data) ==
    [kind |-> "response", errmsg |-> <<>>, status |-> status, statusText |-> statusText,
     parse |-> parse, data |-> data]

FetchError == <<"Failed to fetch">>

SyntaxErrorText == <<"Unexpected token < in JSON at position 0">>

NullTypeErrorText == <<"Cannot read properties of null">>

AnswerVals == {None, Some(<<>>), Some(<<" ">>), Some(<<"A">>)}

ResponseVals == {None, Some(<<>>), Some(<<" ">>), Some(<<"R">>)}

MessageVals == {None, Some(<<>>), Some(<<"M">>)}

DetailVals == {None, Some(<<>>), Some(<<"D">>)}

\* data.sources and data.graph_url of a success body.
ProvenanceVals ==
    {<<None, None>>,
     <<Some(<<>>), Some(<<"/graph">>)>>,
     <<Some(ThreeSources), None>>,
     <<Some(ThreeSources), Some(<<"/graph">>)>>}

StatusTexts == {<<>>, <<"Internal Server Error">>}

\* Every way a request can settle.
Outcomes ==
    {Rejected(FetchError)}
    \cup {Http(500, st, p, NoData) : st \in StatusTexts, p \in {"null", "invalid"}}
    \cup {Http(500, st, "object", Data(None, None, None, d, None, None)) :
            st \in StatusTexts, d \in DetailVals}
    \cup {Http(200, <<"OK">>, p, NoData) : p \in {"null", "invalid"}}
    \cup {Http(200, <<"OK">>, "object", Data(a, r, m, None, sg[1], sg[2])) :
            a \in AnswerVals, r \in ResponseVals, m \in MessageVals, sg \in ProvenanceVals}

\* One outcome of each kind, for the runs that follow whole sessions.
CoreOutcomes ==
    {Rejected(FetchError),
     Http(500, <<"Internal Server Error">>, "invalid", NoData),
     Http(200, <<"OK">>, "invalid", NoData),
     Http(200, <<"OK">>, "object", Data(Some(<<"A">>), None, None, None, None, None)),
     Http(200, <<"OK">>, "object", Data(Some(<<" ">>), None, None, None, None, None)),
     Http(200, <<"OK">>, "object",
          Data(Some(<<"A">>), None, None, None, Some(ThreeSources), Some(<<"/graph">>))),
     Http(200, <<"OK">>, "object",
          Data(Some(<<"A">>), None, None, None, Some(<<>>), Some(<<"/graph">>)))}

\* response.ok
Ok(status) == status >= 200 /\ status <= 299

\* ------------------------------------------------ handleSend / handleSubmit
\* Mutant: the pending flag is not consulted.
AcceptsWhilePending(text, pending) == Trim(text) # <<>>

\* Mutant: the text is not trimmed before the test.
AcceptsBlank(text, pending) == text # <<>> /\ ~pending

\* The guard of a send: the text is not blank and no request is pending.
Accepts(text, pending) == Trim(text) # <<>> /\ ~pending

\* Mutant: the optimistic message is appended with the assistant's role.
UserMessageAssistantRole(text) == Message("assistant", Trim(text), None, None)

UserMessage(text) == Message("user", Trim(text), None, None)

\* Mutant: the token is a value of the module, not of the mounted page.
RequestModuleToken(v, text, sid) ==
    [query |-> Trim(text), session_id |-> IF v = "qa" THEN Some("session-1") ELSE None]

\* The body of the POST request.
Request(v, text, sid) ==
    [query |-> Trim(text), session_id |-> IF v = "qa" THEN Some(sid) ELSE None]

\* Mutant: response is read before answer.
PickAnswerResponseFirst(v, d) ==
    IF Truthy(d.response) THEN d.response[1]
    ELSE IF Truthy(d.answer) THEN d.answer[1]
    ELSE IF v = "qa" /\ Truthy(d.message) THEN d.message[1]
    ELSE Fallback

\* data.answer || data.response || data.message || <fallback> (QAPage),
\* data.answer || data.response || <fallback> (ChatSidebar).
PickAnswer(v, d) ==
    IF Truthy(d.answer) THEN d.answer[1]
    ELSE IF Truthy(d.response) THEN d.response[1]
    ELSE IF v = "qa" /\ Truthy(d.message) THEN d.message[1]
    ELSE Fallback

\* The message of the Error thrown inside the try block, None when the try
\* block runs to its end.
ThrownError(v, o) ==
    IF o.kind = "rejected" THEN Some(o.errmsg)
    ELSE IF ~Ok(o.status) THEN
        IF v # "qa" THEN Some(<<"API error: ", ToString(o.status)>>)
        ELSE IF o.parse = "null" THEN Some(NullTypeErrorText)
        ELSE LET detail == IF o.parse = "invalid" THEN Some(o.statusText) ELSE o.data.detail
             IN  IF Truthy(detail) THEN detail
                 ELSE Some(<<"API returned ", ToString(o.status), ": ">> \o o.statusText)
    ELSE IF o.parse = "invalid" THEN Some(SyntaxErrorText)
    ELSE IF o.parse = "null" THEN Some(NullTypeErrorText)
    ELSE IF v = "qa" /\ Trim(PickAnswer(v, o.data)) = <<>> THEN Some(<<"Empty response from API">>)
    ELSE None

\* The assistant message of the catch block.
ErrorMessage(v, errText) ==
    IF v = "qa" THEN Message("assistant", RemediationQA \o errText, None, None)
    ELSE IF v = "sidebar" THEN Message("assistant", RemediationSidebar, None, None)
    ELSE Message("assistant", RemediationSources, None, None)

\* The assistant message of the try block.
AnswerMessage(v, d) ==
    IF v = "sources"
    THEN Message("assistant", PickAnswer(v, d),
                 IF d.sources # None THEN d.sources ELSE Some(<<>>),
                 d.graph_url)
    ELSE Message("assistant", PickAnswer(v, d), None, None)

\* The one message appended when the request settles with outcome o.
AssistantMessage(v, o) ==
    LET e == ThrownError(v, o)
    IN  IF e # None THEN ErrorMessage(v, e[1]) ELSE AnswerMessage(v, o.data)

\* setError in the catch block (QAPage only).
ErrorAfterSettle(v, o, old) ==
    IF v = "qa" /\ ThrownError(v, o) # None THEN ThrownError(v, o) ELSE old

\* Mutant: setLoading(false) at the end of the try block instead of in finally.
LoadingAfterSettleNoFinally(v, o) == ThrownError(v, o) # None

\* finally { setLoading(false) }
LoadingAfterSettle(v, o) == FALSE

RemoveAt(s, i) == SubSeq(s, 1, i - 1) \o SubSeq(s, i + 1, Len(s))

\* ------------------------------------------------- CompactSourcesViewer
CompactPreview == 2

NewViewer == Some([isExpanded |-> FALSE, showGraph |-> FALSE])

\* msg.role === "assistant" && showSources && msg.sources && msg.sources.length > 0
Rendered(v, m, show) ==
    v = "sources" /\ m.role = "assistant" /\ show /\ m.sources # None /\ Len(m.sources[1]) > 0

ViewerFor(v, m, show) == IF Rendered(v, m, show) THEN NewViewer ELSE None

\* --------------------------------------------------- the graph view
\* new Map()
EmptyMap == [id \in {} |-> None]

\* No PDFUpload component is mounted.
NoUploadDialog ==
    /\ open = FALSE
    /\ file = None
    /\ fileType = "pdf"
    /\ dataType = "invoice"
    /\ uploading = FALSE
    /\ uploadStatus = "idle"
    /\ errorMessage = <<>>
    /\ toast = None
    /\ onUploadComplete = "none"
    /\ uploadRequest = None
    /\ reloadPending = FALSE
    /\ timers = {}
    /\ uploads = 0
    /\ uploadSettled = None
    /\ uploadEvent = "mount"
    /\ firedTimer = 0

\* No KnowledgeGraph component is mounted.
NoGraphView ==
    /\ graphData = None
    /\ graphLoading = TRUE
    /\ graphError = None
    /\ graphFetch = "none"
    /\ canvas = None
    /\ renderDue = FALSE
    /\ renderError = None
    /\ nodePositions = EmptyMap
    /\ painted = <<>>
    /\ layoutRuns = <<>>
    /\ graphFetches = 0
    /\ graphMounts = 0
    /\ graphSettled = None

\* ------------------------------------------------------------ the session
TypeOK ==
    /\ variant \in Variants \cup {"none"}
    /\ input \in Texts
    /\ loading \in BOOLEAN
    /\ isOpen \in BOOLEAN
    /\ showSources \in BOOLEAN
    /\ issued \in 0..(MaxSends + MaxReplySends)
    /\ Len(viewers) = Len(messages)

\* The state of a chat component after it mounted.
ChatMounted ==
    /\ variant \in Variants
    /\ messages = InitialMessages(variant)
    /\ input = <<>>
    /\ loading = FALSE
    /\ error = None
    /\ sessionId \in (IF variant = "qa" THEN SessionIds ELSE {"none"})
    /\ isOpen = FALSE
    /\ showSources = TRUE
    /\ viewers = [i \in 1..Len(messages) |-> None]
    /\ inflight = <<>>
    /\ issued = 0
    /\ sentAt = 0
    /\ settled = None
    /\ event = "mount"

\* The state after the component mounted: nothing else is on the page.
Init ==
    /\ ChatMounted
    /\ presenter = None
    /\ NoUploadDialog
    /\ NoGraphView

\* onChange of the input box, and the prompt buttons (setInput / setMessage).
SetInput(t) ==
    /\ input' = t
    /\ event' = "setInput"
    /\ UNCHANGED <<viewVars, variant, messages, loading, error, sessionId, isOpen, showSources,
                   viewers, inflight, issued, sentAt, settled>>

\* Mutant: handleSubmit leaves the last error as it is.
HandleSendKeepsError(limit) ==
    /\ event' = "handleSend"
    /\ IF Accepts(input, loading)
       THEN /\ issued < limit
            /\ input' = <<>>
            /\ messages' = Append(messages, UserMessage(input))
            /\ viewers' = Append(viewers, ViewerFor(variant, UserMessage(input), showSources))
            /\ loading' = TRUE
            /\ error' = error
            /\ inflight' = Append(inflight, Request(variant, input, sessionId))
            /\ issued' = issued + 1
            /\ sentAt' = Len(messages)
            /\ UNCHANGED <<viewVars, variant, sessionId, isOpen, showSources, settled>>
       ELSE UNCHANGED <<viewVars, variant, messages, input, loading, error, sessionId, isOpen,
                        showSources, viewers, inflight, issued, sentAt, settled>>

\* Mutant: the user message is not appended at the send.
HandleSendNoOptimistic(limit) ==
    /\ event' = "handleSend"
    /\ IF Accepts(input, loading)
       THEN /\ issued < limit
            /\ input' = <<>>
            /\ loading' = TRUE
            /\ error' = IF variant = "qa" THEN None ELSE error
            /\ inflight' = Append(inflight, Request(variant, input, sessionId))
            /\ issued' = issued + 1
            /\ sentAt' = Len(messages)
            /\ UNCHANGED <<viewVars, variant, messages, viewers, sessionId, isOpen, showSources, settled>>
       ELSE UNCHANGED <<viewVars, variant, messages, input, loading, error, sessionId, isOpen,
                        showSources, viewers, inflight, issued, sentAt, settled>>

\* handleSend / handleSubmit up to the await of fetch; limit caps the number
\* of accepted sends of one behaviour.
HandleSend(limit) ==
    /\ event' = "handleSend"
    /\ IF Accepts(input, loading)
       THEN /\ issued < limit
            /\ input' = <<>>
            /\ messages' = Append(messages, UserMessage(input))
            /\ viewers' = Append(viewers, ViewerFor(variant, UserMessage(input), showSources))
            /\ loading' = TRUE
            /\ error' = IF variant = "qa" THEN None ELSE error
            /\ inflight' = Append(inflight, Request(variant, input, sessionId))
            /\ issued' = issued + 1
            /\ sentAt' = Len(messages)
            /\ UNCHANGED <<viewVars, variant, sessionId, isOpen, showSources, settled>>
       ELSE UNCHANGED <<viewVars, variant, messages, input, loading, error, sessionId, isOpen,
                        showSources, viewers, inflight, issued, sentAt, settled>>

\* Mutant: the catch block only logs, it appends no message.
SettleSilentFailure(i, o) ==
    /\ i \in 1..Len(inflight)
    /\ messages' = IF ThrownError(variant, o) # None THEN messages
                   ELSE Append(messages, AssistantMessage(variant, o))
    /\ viewers' = IF ThrownError(variant, o) # None THEN viewers
                  ELSE Append(viewers, ViewerFor(variant, AssistantMessage(variant, o), showSources))
    /\ error' = ErrorAfterSettle(variant, o, error)
    /\ loading' = FALSE
    /\ inflight' = RemoveAt(inflight, i)
    /\ settled' = Some(o)
    /\ event' = "settle"
    /\ UNCHANGED <<viewVars, variant, input, sessionId, isOpen, showSources, issued, sentAt>>

\* Mutant: the reply takes the place of the last message of the transcript.
SettleRewritesLast(i, o) ==
    /\ i \in 1..Len(inflight)
    /\ messages' = [messages EXCEPT ![Len(messages)] = AssistantMessage(variant, o)]
    /\ viewers' = [viewers EXCEPT ![Len(messages)] =
                      ViewerFor(variant, AssistantMessage(variant, o), showSources)]
    /\ error' = ErrorAfterSettle(variant, o, error)
    /\ loading' = FALSE
    /\ inflight' = RemoveAt(inflight, i)
    /\ settled' = Some(o)
    /\ event' = "settle"
    /\ UNCHANGED <<viewVars, variant, input, sessionId, isOpen, showSources, issued, sentAt>>

\* Mutant: a failed request is issued once more before the failure is shown.
SettleRetries(i, o) ==
    /\ i \in 1..Len(inflight)
    /\ IF ThrownError(variant, o) # None /\ issued < 2 * MaxSends
       THEN /\ inflight' = Append(RemoveAt(inflight, i), inflight[i])
            /\ issued' = issued + 1
            /\ UNCHANGED <<messages, viewers, error, loading>>
       ELSE /\ messages' = Append(messages, AssistantMessage(variant, o))
            /\ viewers' = Append(viewers, ViewerFor(variant, AssistantMessage(variant, o), showSources))
            /\ error' = ErrorAfterSettle(variant, o, error)
            /\ loading' = LoadingAfterSettle(variant, o)
            /\ inflight' = RemoveAt(inflight, i)
            /\ issued' = issued
    /\ settled' = Some(o)
    /\ event' = "settle"
    /\ UNCHANGED <<viewVars, variant, input, sessionId, isOpen, showSources, sentAt>>

\* The rest of handleSend / handleSubmit: request i settles with outcome o.
Settle(i, o) ==
    /\ i \in 1..Len(inflight)
    /\ messages' = Append(messages, AssistantMessage(variant, o))
    /\ viewers' = Append(viewers, ViewerFor(variant, AssistantMessage(variant, o), showSources))
    /\ error' = ErrorAfterSettle(variant, o, error)
    /\ loading' = LoadingAfterSettle(variant, o)
    /\ inflight' = RemoveAt(inflight, i)
    /\ settled' = Some(o)
    /\ event' = "settle"
    /\ UNCHANGED <<viewVars, variant, input, sessionId, isOpen, showSources, issued, sentAt>>

\* Mutant: the panel is unmounted when closed and mounts anew when opened.
SetIsOpenRemounts ==
    /\ variant \in {"sidebar", "sources"}
    /\ isOpen' = ~isOpen
    /\ messages' = IF isOpen THEN messages ELSE InitialMessages(variant)
    /\ viewers' = IF isOpen THEN viewers ELSE [i \in 1..Len(InitialMessages(variant)) |-> None]
    /\ event' = "ui"
    /\ UNCHANGED <<viewVars, variant, input, loading, error, sessionId, showSources,
                   inflight, issued, sentAt, settled>>

\* Mutant: closing the panel abandons the request that is in flight.
SetIsOpenCancels ==
    /\ variant \in {"sidebar", "sources"}
    /\ isOpen' = ~isOpen
    /\ loading' = IF isOpen THEN FALSE ELSE loading
    /\ inflight' = IF isOpen THEN <<>> ELSE inflight
    /\ event' = "ui"
    /\ UNCHANGED <<viewVars, variant, messages, input, error, sessionId, showSources,
                   viewers, issued, sentAt, settled>>

\* The toggle button of the panel (setIsOpen(!isOpen)) and the click on the
\* backdrop (setIsOpen(false)).
SetIsOpen ==
    /\ variant \in {"sidebar", "sources"}
    /\ isOpen' = ~isOpen
    /\ event' = "ui"
    /\ UNCHANGED <<viewVars, variant, messages, input, loading, error, sessionId, showSources,
                   viewers, inflight, issued, sentAt, settled>>

\* setShowSources(!showSources): the viewers are unmounted or mounted anew.
SetShowSources ==
    /\ variant = "sources"
    /\ showSources' = ~showSources
    /\ viewers' = [i \in 1..Len(messages) |-> ViewerFor(variant, messages[i], ~showSources)]
    /\ event' = "ui"
    /\ UNCHANGED <<viewVars, variant, messages, input, loading, error, sessionId, isOpen,
                   inflight, issued, sentAt, settled>>

\* setIsExpanded(!isExpanded) of the viewer of message i.
SetIsExpanded(i) ==
    /\ i \in 1..Len(messages)
    /\ viewers[i] # None
    /\ Len(messages[i].sources[1]) > CompactPreview
    /\ viewers' = [viewers EXCEPT ![i] = Some([@[1] EXCEPT !.isExpanded = ~@])]
    /\ event' = "ui"
    /\ UNCHANGED <<viewVars, variant, messages, input, loading, error, sessionId, isOpen,
                   showSources, inflight, issued, sentAt, settled>>

\* Mutant: the overlay takes over the pending flag of the session.
SetShowGraphSetsPending(i) ==
    /\ i \in 1..Len(messages)
    /\ viewers[i] # None
    /\ Truthy(messages[i].graphUrl)
    /\ viewers' = [viewers EXCEPT ![i] = Some([@[1] EXCEPT !.showGraph = ~@])]
    /\ loading' = ~viewers[i][1].showGraph
    /\ event' = "ui"
    /\ UNCHANGED <<viewVars, variant, messages, input, error, sessionId, isOpen,
                   showSources, inflight, issued, sentAt, settled>>

\* setShowGraph(true) by the Graph button, setShowGraph(false) by the X of the overlay.
SetShowGraph(i) ==
    /\ i \in 1..Len(messages)
    /\ viewers[i] # None
    /\ Truthy(messages[i].graphUrl)
    /\ viewers' = [viewers EXCEPT ![i] = Some([@[1] EXCEPT !.showGraph = ~@])]
    /\ event' = "ui"
    /\ UNCHANGED <<viewVars, variant, messages, input, loading, error, sessionId, isOpen,
                   showSources, inflight, issued, sentAt, settled>>

Next ==
    \/ \E t \in Texts : SetInput(t)
    \/ HandleSend(MaxSends)
    \/ \E i \in 1..MaxSends, o \in CoreOutcomes : Settle(i, o)
    \/ SetIsOpen
    \/ SetShowSources
    \/ \E i \in 1..(2 * MaxSends + 1) : SetIsExpanded(i)
    \/ \E i \in 1..(2 * MaxSends + 1) : SetShowGraph(i)

Spec == Init /\ [][Next]_vars

\* One exchange of every kind: the whole set of outcomes, without the panel.
NextReply ==
    \/ \E t \in Texts : SetInput(t)
    \/ HandleSend(MaxReplySends)
    \/ \E i \in 1..MaxReplySends, o \in Outcomes : Settle(i, o)

SpecReply == Init /\ [][NextReply]_vars

\* --------------------------------- SourcesViewer / CompactSourcesViewer
\* The two presenters of provenance triples, mounted with props of their
\* own: kind "full" is SourcesViewer, kind "compact" CompactSourcesViewer.
ViewerKinds == {"full", "compact"}

\* Longest triple list passed as a prop.
MaxTriples == 4

FullPreview == 3

\* sources.slice(0, 3) / sources.slice(0, 2)
PreviewSize(kind) == IF kind = "full" THEN FullPreview ELSE CompactPreview

\* source.source || "Entity" / source.source || "?"
Placeholder(kind) == IF kind = "full" THEN <<"Entity">> ELSE <<"?">>

OrPlaceholder(kind, str) == IF str # <<>> THEN str ELSE Placeholder(kind)

\* Array.prototype.slice(from, to) on non-negative indices.
Slice(arr, from, to) ==
    SubSeq(arr, from + 1, IF to < Len(arr) THEN to ELSE Len(arr))

\* Mutant: the list is cut to the preview even when expanded.
DisplayedSourcesAlwaysCut(kind, sources, isExpanded) ==
    Slice(sources, 0, PreviewSize(kind))

\* const displayedSources = isExpanded ? sources : sources.slice(0, n)
DisplayedSources(kind, sources, isExpanded) ==
    IF isExpanded THEN sources ELSE Slice(sources, 0, PreviewSize(kind))

\* One row of the list.
Row(kind, t) ==
    [source |-> OrPlaceholder(kind, t.source),
     relationship |-> t.relationship,
     target |-> OrPlaceholder(kind, t.target)]

NothingRendered ==
    [shown |-> FALSE, rows |-> <<>>, graphButton |-> FALSE, toggle |-> FALSE,
     overlay |-> FALSE]

\* Mutant: the Graph control and the overlay are rendered ahead of the test
\* of the triple list.
ViewGraphControlFirst(p) ==
    IF p.sources = None \/ Len(p.sources[1]) = 0
    THEN [NothingRendered EXCEPT !.graphButton = Truthy(p.graphUrl),
                                 !.overlay = p.showGraph /\ Truthy(p.graphUrl)]
    ELSE LET shownRows == DisplayedSources(p.kind, p.sources[1], p.isExpanded)
         IN  [shown |-> TRUE,
              rows |-> [j \in 1..Len(shownRows) |-> Row(p.kind, shownRows[j])],
              graphButton |-> Truthy(p.graphUrl),
              toggle |-> Len(p.sources[1]) > PreviewSize(p.kind),
              overlay |-> p.showGraph /\ Truthy(p.graphUrl)]

\* What a presenter with props and state p renders.
View(p) ==
    IF p.sources = None \/ Len(p.sources[1]) = 0
    THEN NothingRendered
    ELSE LET shownRows == DisplayedSources(p.kind, p.sources[1], p.isExpanded)
         IN  [shown |-> TRUE,
              rows |-> [j \in 1..Len(shownRows) |-> Row(p.kind, shownRows[j])],
              graphButton |-> Truthy(p.graphUrl),
              toggle |-> Len(p.sources[1]) > PreviewSize(p.kind),
              overlay |-> p.showGraph /\ Truthy(p.graphUrl)]

\* The triples of the props: one complete, one with blank entities.
TripleVals ==
    {Triple("1"), [source |-> <<>>, relationship |-> <<"paid">>, target |-> <<>>]}

SourcesProps ==
    {None} \cup {Some(l) : l \in UNION {[1..n -> TripleVals] : n \in 0..MaxTriples}}

GraphUrlProps == {None, Some(<<>>), Some(<<"/graph">>)}

\* No chat component is mounted.
NoChat ==
    /\ variant = "none"
    /\ messages = <<>>
    /\ input = <<>>
    /\ loading = FALSE
    /\ error = None
    /\ sessionId = "none"
    /\ isOpen = FALSE
    /\ showSources = TRUE
    /\ viewers = <<>>
    /\ inflight = <<>>
    /\ issued = 0
    /\ sentAt = 0
    /\ settled = None
    /\ event = "mount"

\* A presenter after it mounted: useState(false) twice.
InitViewer ==
    /\ NoChat
    /\ NoGraphView
    /\ NoUploadDialog
    /\ \E k \in ViewerKinds, src \in SourcesProps, g \in GraphUrlProps :
          presenter = Some([kind |-> k, sources |-> src, graphUrl |-> g,
                            isExpanded |-> FALSE, showGraph |-> FALSE])

\* onClick={() => setIsExpanded(!isExpanded)} of the button under the list.
ToggleExpanded ==
    /\ View(presenter[1]).toggle
    /\ presenter' = Some([presenter[1] EXCEPT !.isExpanded = ~@])
    /\ event' = "setIsExpanded"
    /\ UNCHANGED <<graphVars, uploadVars, variant, messages, input, loading, error, sessionId, isOpen,
                   showSources, viewers, inflight, issued, sentAt, settled>>

\* onClick={() => setShowGraph(true)} of the View Graph / Graph button.
OpenGraph ==
    /\ View(presenter[1]).graphButton
    /\ presenter' = Some([presenter[1] EXCEPT !.showGraph = TRUE])
    /\ event' = "openGraph"
    /\ UNCHANGED <<graphVars, uploadVars, variant, messages, input, loading, error, sessionId, isOpen,
                   showSources, viewers, inflight, issued, sentAt, settled>>

\* onClick={() => setShowGraph(false)} of the X button of the overlay.
CloseGraph ==
    /\ View(presenter[1]).overlay
    /\ presenter' = Some([presenter[1] EXCEPT !.showGraph = FALSE])
    /\ event' = "closeGraph"
    /\ UNCHANGED <<graphVars, uploadVars, variant, messages, input, loading, error, sessionId, isOpen,
                   showSources, viewers, inflight, issued, sentAt, settled>>

NextViewer == ToggleExpanded \/ OpenGraph \/ CloseGraph

SpecViewer == InitViewer /\ [][NextViewer]_vars

\* ------------------------------------------------------ KnowledgeGraph
\* Most nodes of a snapshot.
MaxNodes == 3

\* The decimal digits, "0" first.
Digits == <<"0", "1", "2", "3", "4", "5", "6", "7", "8", "9">>

IsDigit(c) == \E d \in 1..10 : Digits[d] = c

DigitValue(c) == (CHOOSE d \in 1..10 : Digits[d] = c) - 1

\* A property key that is a canonical integer index ("7", "10", not "07").
IsIndexKey(key) ==
    /\ key # <<>>
    /\ \A j \in 1..Len(key) : IsDigit(key[j])
    /\ Len(key) = 1 \/ key[1] # "0"

RECURSIVE IndexValue(_)
IndexValue(key) ==
    IF key = <<>> THEN 0
    ELSE 10 * IndexValue(SubSeq(key, 1, Len(key) - 1)) + DigitValue(key[Len(key)])

\* The names of the properties every plain object inherits from
\* Object.prototype: read through a plain object they give a function (an
\* object for __proto__), not undefined.
PrototypeKeys ==
    {<<"constructor">>, <<"hasOwnProperty">>, <<"isPrototypeOf">>,
     <<"propertyIsEnumerable">>, <<"toLocaleString">>, <<"toString">>, <<"valueOf">>,
     <<"__proto__">>, <<"__defineGetter__">>, <<"__defineSetter__">>,
     <<"__lookupGetter__">>, <<"__lookupSetter__">>}

\* The type tags of the snapshots: the four of the palette, one outside it,
\* two that are integer indices.
TypeTags ==
    {<<"vendor">>, <<"invoice">>, <<"transaction">>, <<"product">>, <<"account">>,
     <<"7">>, <<"1", "0">>}

\* Type tags that name a property of Object.prototype.
PrototypeTags == {<<"constructor">>, <<"toString">>}

NodeId(k) == <<"n", k>>

LabelText ==
    <<"A", "c", "m", "e", " ", "I", "n", "d", "u", "s", "t", "r", "i", "a", "l", " ",
      "S", "u", "p", "p", "l", "y">>

\* The label of the k-th node: 4, 15, 16 and 22 characters, then none.
LabelOf(k) ==
    SubSeq(LabelText, 1, CASE k = 1 -> 4 [] k = 2 -> 15 [] k = 3 -> 16 [] k = 4 -> 22
                            [] OTHER -> 0)

GraphNode(k, type) == [id |-> NodeId(k), label |-> LabelOf(k), type |-> type]

GraphEdge(a, b) == [source |-> NodeId(a), target |-> NodeId(b), relationship |-> <<"has">>]

\* Node lists with unique identifiers.
NodeLists ==
    UNION {{[j \in 1..n |-> GraphNode(j, f[j])] : f \in [1..n -> TypeTags]} : n \in 0..MaxNodes}

\* Edge lists: none, one, a duplicate, a self-loop, and edges of which an
\* endpoint (node 0, or a node beyond the list) is not in the snapshot.
EdgeLists ==
    {<<>>,
     <<GraphEdge(1, 2)>>,
     <<GraphEdge(1, 2), GraphEdge(1, 2)>>,
     <<GraphEdge(1, 1), GraphEdge(2, 1)>>,
     <<GraphEdge(1, 0), GraphEdge(2, 3)>>,
     <<GraphEdge(0, 1), GraphEdge(1, 2)>>}

Snapshots == {[nodes |-> ns, edges |-> es] : ns \in NodeLists, es \in EdgeLists}

\* The canvas element as the browser lays it out: offsetWidth, offsetHeight,
\* and whether getContext('2d') returns a context.
Canvases ==
    {[offsetWidth |-> 600, offsetHeight |-> 384, hasContext |-> TRUE],
     [offsetWidth |-> 300, offsetHeight |-> 384, hasContext |-> TRUE],
     [offsetWidth |-> 0, offsetHeight |-> 0, hasContext |-> TRUE],
     [offsetWidth |-> 600, offsetHeight |-> 384, hasContext |-> FALSE]}

\* How the fetch of the snapshot can settle.
GraphOutcomes ==
    {Rejected(FetchError), Http(500, <<>>, "object", NoData),
     Http(500, <<>>, "invalid", NoData), Http(200, <<"OK">>, "invalid", NoData),
     Http(200, <<"OK">>, "null", NoData)}
    \cup {Http(200, <<"OK">>, "object", d) : d \in Snapshots}

\* Mutant: the first .then does not test res.ok.
GraphThrownIgnoresStatus(o) ==
    IF o.kind = "rejected" THEN Some(o.errmsg)
    ELSE IF o.parse = "invalid" THEN Some(SyntaxErrorText)
    ELSE None

\* The error that reaches .catch, if any.
GraphThrown(o) ==
    IF o.kind = "rejected" THEN Some(o.errmsg)
    ELSE IF ~Ok(o.status) THEN Some(<<"Failed to fetch graph data">>)
    ELSE IF o.parse = "invalid" THEN Some(SyntaxErrorText)
    ELSE None

\* canvasRef.current: the canvas is rendered only past both early returns,
\* and it is gone once an error of the render effect has unmounted the view.
CanvasRef ==
    IF ~graphLoading /\ ~Truthy(graphError) /\ renderError = None THEN Some(canvas) ELSE None

\* Map.prototype.set / get / has
MapSet(m, k, v) == [x \in DOMAIN m \cup {k} |-> IF x = k THEN v ELSE m[x]]

MapHas(m, k) == k \in DOMAIN m

\* Math.min
Min(a, b) == IF a < b THEN a ELSE b

\* String.prototype.substring(from, to) with 0 <= from <= to.
Substring(str, from, to) == SubSeq(str, from + 1, Min(to, Len(str)))

\* acc[key] of the plain object acc, which is the sequence of its own
\* properties in the order of their creation: an own property, a property
\* inherited from Object.prototype, or undefined.
PropertyOf(acc, key) ==
    IF \E j \in 1..Len(acc) : acc[j].key = key THEN "own"
    ELSE IF key \in PrototypeKeys THEN "inherited"
    ELSE "undefined"

\* TypeError of acc[node.type].push(node) on an inherited value.
PushErrorText == <<"acc[node.type].push is not a function">>

\* The callback of graphData.nodes.reduce, lines 76-80: Some(acc) as it
\* returns it, None when it throws.  An inherited value is truthy, so no
\* array is created for the type, and it has no push.
PushByType(acc, node) ==
    CASE PropertyOf(acc, node.type) = "own" ->
             Some([j \in 1..Len(acc) |->
                     IF acc[j].key = node.type THEN [acc[j] EXCEPT !.nodes = Append(@, node)]
                     ELSE acc[j]])
      [] PropertyOf(acc, node.type) = "undefined" ->
             Some(Append(acc, [key |-> node.type, nodes |-> <<node>>]))
      [] OTHER -> None

\* graphData.nodes.reduce(..., {}): Some(nodesByType), None when a call of
\* the callback throws.
RECURSIVE NodesByType(_, _)
NodesByType(nodes, acc) ==
    IF nodes = <<>> THEN Some(acc)
    ELSE LET pushed == PushByType(acc, Head(nodes))
         IN  IF pushed = None THEN None ELSE NodesByType(Tail(nodes), pushed[1])

\* nodesByType[type]
NodesOfType(obj, type) == (CHOOSE p \in {obj[j] : j \in 1..Len(obj)} : p.key = type).nodes

\* The integer-index keys in ascending order of their value.
RECURSIVE SortedIndexKeys(_)
SortedIndexKeys(keys) ==
    IF keys = {} THEN <<>>
    ELSE LET least == CHOOSE k \in keys : \A other \in keys : IndexValue(k) <= IndexValue(other)
         IN  <<least>> \o SortedIndexKeys(keys \ {least})

\* Object.keys: integer-index keys first, ascending, then the other keys in
\* the order of their creation.
ObjectKeys(obj) ==
    LET keys == [j \in 1..Len(obj) |-> obj[j].key]
        NotIndex(k) == ~IsIndexKey(k)
    IN  SortedIndexKeys({keys[j] : j \in {i \in 1..Len(keys) : IsIndexKey(keys[i])}})
        \o SelectSeq(keys, NotIndex)

\* The point of line 90-93, kept exact: twice the centre, thirty times
\* typeRadius = min(width, height) / 3 * (0.5 + typeIndex * 0.3), and the
\* angle index * (2 pi / count) as the fraction index / count of a turn.
Position(width, height, typeIndex, index, count) ==
    [cx2 |-> width, cy2 |-> height,
     r30 |-> Min(width, height) * (5 + 3 * typeIndex),
     turn |-> <<index, count>>]

\* nodesOfType.forEach((node, index) => nodePositions.set(node.id, ...)), from index on.
RECURSIVE PlaceNodes(_, _, _, _, _, _)
PlaceNodes(m, nodesOfType, index, typeIndex, width, height) ==
    IF index >= Len(nodesOfType) THEN m
    ELSE PlaceNodes(MapSet(m, nodesOfType[index + 1].id,
                           Position(width, height, typeIndex, index, Len(nodesOfType))),
                    nodesOfType, index + 1, typeIndex, width, height)

\* types.forEach((type, typeIndex) => ...), from typeIndex on.
RECURSIVE PlaceTypes(_, _, _, _, _, _)
PlaceTypes(m, obj, types, typeIndex, width, height) ==
    IF typeIndex >= Len(types) THEN m
    ELSE PlaceTypes(PlaceNodes(m, NodesOfType(obj, types[typeIndex + 1]), 0, typeIndex,
                               width, height),
                    obj, types, typeIndex + 1, width, height)

\* Mutant: one Map is kept by the module and filled again by every run.
NewMapKept(previous) == previous

\* const nodePositions = new Map(): nothing of the previous run is kept.
NewMap(previous) == EmptyMap

\* The layout step, lines 70-95: Some(nodePositions), None when the
\* grouping throws.
Layout(previous, nodes, width, height) ==
    LET grouped == NodesByType(nodes, <<>>)
    IN  IF grouped = None THEN None
        ELSE Some(PlaceTypes(NewMap(previous), grouped[1], ObjectKeys(grouped[1]), 0,
                             width, height))

\* ------------------------------------------------------- the draw calls
\* One call on the 2d context: the points and the numbers it is given, the
\* fill or stroke style in force and the text.
DrawCall(op, points, numbers, style, text) ==
    [op |-> op, points |-> points, numbers |-> numbers, style |-> style, text |-> text]

\* ctx.clearRect(0, 0, canvas.width, canvas.height)
ClearRect(width, height) == DrawCall("clearRect", <<>>, <<0, 0, width, height>>, "", <<>>)

\* beginPath, moveTo, lineTo, stroke with strokeStyle '#666'
StrokeLine(source, target) == DrawCall("stroke", <<source, target>>, <<>>, "#666", <<>>)

\* beginPath, arc(pos.x, pos.y, 8, 0, 2 pi), fill
FillCircle(pos, style) == DrawCall("fill", <<pos>>, <<8>>, style, <<>>)

\* fillText(text, pos.x, pos.y + 20) with fillStyle '#fff'
FillText(text, pos) == DrawCall("fillText", <<pos>>, <<20>>, "#fff", text)

\* A value that is no colour: a function or object inherited from
\* Object.prototype.
NotAColour == "inherited"

\* colors[node.type], the colors object of line 117-122 read through its
\* prototype chain.
Colors(type) ==
    CASE type = <<"vendor">> -> Some("#3b82f6")
      [] type = <<"invoice">> -> Some("#10b981")
      [] type = <<"transaction">> -> Some("#f59e0b")
      [] type = <<"product">> -> Some("#8b5cf6")
      [] type \in PrototypeKeys -> Some(NotAColour)
      [] OTHER -> None

\* The fill style of a 2d context whose state was reset by the assignment
\* of canvas.width.
DefaultFillStyle == "#000000"

\* ctx.fillStyle = colors[node.type] || '#6b7280': the fill style in force
\* afterwards.  The context ignores the assignment of a value that is no
\* colour and keeps the style it has.
FillStyle(type, current) ==
    IF Colors(type) = None THEN "#6b7280"
    ELSE IF Colors(type)[1] = NotAColour THEN current
    ELSE Colors(type)[1]

\* Mutant: a line is drawn for every edge, to the origin for a missing endpoint.
RECURSIVE DrawEdgesUnguarded(_, _)
DrawEdgesUnguarded(edges, m) ==
    IF edges = <<>> THEN <<>>
    ELSE LET edge == Head(edges)
             origin == Position(0, 0, 0, 0, 1)
             source == IF MapHas(m, edge.source) THEN m[edge.source] ELSE origin
             target == IF MapHas(m, edge.target) THEN m[edge.target] ELSE origin
         IN  <<StrokeLine(source, target)>> \o DrawEdgesUnguarded(Tail(edges), m)

\* graphData.edges.forEach: lines 100-109.
RECURSIVE DrawEdges(_, _)
DrawEdges(edges, m) ==
    IF edges = <<>> THEN <<>>
    ELSE LET edge == Head(edges)
         IN  (IF MapHas(m, edge.source) /\ MapHas(m, edge.target)
              THEN <<StrokeLine(m[edge.source], m[edge.target])>>
              ELSE <<>>)
             \o DrawEdges(Tail(edges), m)

\* graphData.nodes.forEach, lines 112-135, with the fill style in force
\* before it: a node that is drawn leaves the style of its label, '#fff'.
RECURSIVE DrawNodes(_, _, _)
DrawNodes(nodes, m, fillStyle) ==
    IF nodes = <<>> THEN <<>>
    ELSE LET node == Head(nodes)
         IN  IF ~MapHas(m, node.id) THEN DrawNodes(Tail(nodes), m, fillStyle)
             ELSE <<FillCircle(m[node.id], FillStyle(node.type, fillStyle)),
                    FillText(Substring(node.label, 0, 15), m[node.id])>>
                  \o DrawNodes(Tail(nodes), m, "#fff")

\* Mutant: the nodes are drawn first and the surface is cleared last.
RepaintClearsLast(data, m, width, height) ==
    DrawNodes(data.nodes, m, DefaultFillStyle) \o DrawEdges(data.edges, m)
    \o <<ClearRect(width, height)>>

\* The draw calls of one run of the render effect, in order.
Repaint(data, m, width, height) ==
    <<ClearRect(width, height)>> \o DrawEdges(data.edges, m)
    \o DrawNodes(data.nodes, m, DefaultFillStyle)

\* ------------------------------------------------ the mounted graph view
\* Mounts of one behaviour of SpecRelayout.
MaxRuns == 3

\* The state after KnowledgeGraph mounted on canvas c: both effects have run,
\* the fetch is outstanding and the render effect returned at line 56.
MountGraph(c) ==
    /\ graphData' = None
    /\ graphLoading' = TRUE
    /\ graphError' = None
    /\ graphFetch' = "pending"
    /\ canvas' = Some(c)
    /\ renderDue' = FALSE
    /\ renderError' = None
    /\ painted' = <<>>
    /\ graphFetches' = graphFetches + 1
    /\ graphMounts' = graphMounts + 1
    /\ graphSettled' = None

\* The graph view right after it mounted on one of the canvases.
GraphMounted ==
    /\ graphData = None
    /\ graphLoading = TRUE
    /\ graphError = None
    /\ graphFetch = "pending"
    /\ canvas \in {Some(c) : c \in Canvases}
    /\ renderDue = FALSE
    /\ renderError = None
    /\ nodePositions = EmptyMap
    /\ painted = <<>>
    /\ layoutRuns = <<>>
    /\ graphFetches = 1
    /\ graphMounts = 1
    /\ graphSettled = None

InitGraph ==
    /\ NoChat
    /\ presenter = None
    /\ NoUploadDialog
    /\ GraphMounted

\* Mutant: the graph view and the chat use one pending flag.
GraphFetchSettleSharedFlag(o) ==
    /\ graphFetch = "pending"
    /\ graphFetch' = "settled"
    /\ graphSettled' = Some(o)
    /\ graphLoading' = FALSE
    /\ loading' = FALSE
    /\ IF GraphThrown(o) # None
       THEN /\ graphError' = GraphThrown(o)
            /\ UNCHANGED <<graphData, renderDue>>
       ELSE /\ graphData' = (IF o.parse = "null" THEN None ELSE Some(o.data))
            /\ renderDue' = (o.parse # "null")
            /\ UNCHANGED graphError
    /\ UNCHANGED <<uploadVars, variant, messages, input, error, sessionId, isOpen, showSources,
                   viewers, inflight, issued, sentAt, settled, event,
                   presenter, canvas, renderError, nodePositions, painted, layoutRuns,
                   graphFetches, graphMounts>>

\* The fetch settles with outcome o: the second .then, or .catch.  The two
\* state updates of either callback are committed together, and a change of
\* graphData schedules the render effect.
GraphFetchSettle(o) ==
    /\ graphFetch = "pending"
    /\ graphFetch' = "settled"
    /\ graphSettled' = Some(o)
    /\ graphLoading' = FALSE
    /\ IF GraphThrown(o) # None
       THEN /\ graphError' = GraphThrown(o)
            /\ UNCHANGED <<graphData, renderDue>>
       ELSE /\ graphData' = (IF o.parse = "null" THEN None ELSE Some(o.data))
            /\ renderDue' = (o.parse # "null")
            /\ UNCHANGED graphError
    /\ UNCHANGED <<chatVars, presenter, uploadVars, canvas, renderError, nodePositions, painted,
                   layoutRuns, graphFetches, graphMounts>>

\* The render effect, lines 55-136.  When the grouping of the nodes throws,
\* the canvas has been cleared and the new Map is empty; the error leaves the
\* effect uncaught and React unmounts the view.
RenderEffect ==
    /\ renderDue
    /\ renderDue' = FALSE
    /\ IF graphData = None \/ CanvasRef = None \/ ~canvas[1].hasContext
       THEN UNCHANGED <<renderError, nodePositions, painted, layoutRuns>>
       ELSE LET width == canvas[1].offsetWidth
                height == canvas[1].offsetHeight
            IN  \E laidOut \in {Layout(nodePositions, graphData[1].nodes, width, height)} :
                    IF laidOut = None
                    THEN /\ renderError' = Some(PushErrorText)
                         /\ nodePositions' = NewMap(nodePositions)
                         /\ painted' = <<ClearRect(width, height)>>
                         /\ UNCHANGED layoutRuns
                    ELSE /\ nodePositions' = laidOut[1]
                         /\ painted' = Repaint(graphData[1], laidOut[1], width, height)
                         /\ layoutRuns' = Append(layoutRuns,
                                                 [data |-> graphData[1], width |-> width,
                                                  height |-> height,
                                                  positions |-> laidOut[1]])
                         /\ UNCHANGED renderError
    /\ UNCHANGED <<chatVars, presenter, uploadVars, graphData, graphLoading, graphError, graphFetch,
                   canvas, graphFetches, graphMounts, graphSettled>>

\* The component is unmounted and mounted again on canvas c, at any time
\* between two commits.  A fetch of the unmounted instance that settles
\* later sets state of a component that is gone: it changes nothing.
Remount(c) ==
    /\ ~renderDue
    /\ graphMounts < MaxRuns
    /\ MountGraph(c)
    /\ UNCHANGED <<chatVars, presenter, uploadVars, nodePositions, layoutRuns>>

NextGraph ==
    \/ graphFetch = "pending" /\ \E o \in GraphOutcomes : GraphFetchSettle(o)
    \/ RenderEffect

SpecGraph == InitGraph /\ [][NextGraph]_vars

\* The graph view on snapshots whose type tags include names of properties
\* of Object.prototype.
TaggedNodeLists ==
    UNION {{[j \in 1..n |-> GraphNode(j, f[j])] :
               f \in [1..n -> {<<"vendor">>, <<"account">>} \cup PrototypeTags]} :
           n \in 0..MaxNodes}

TaggedSnapshots ==
    {[nodes |-> ns, edges |-> es] : ns \in TaggedNodeLists,
                                   es \in {<<>>, <<GraphEdge(1, 2)>>}}

NextGraphTagged ==
    \/ \E d \in TaggedSnapshots : GraphFetchSettle(Http(200, <<"OK">>, "object", d))
    \/ RenderEffect

SpecGraphTagged == InitGraph /\ [][NextGraphTagged]_vars

\* A few snapshots and canvases, for the behaviours that mount repeatedly.
CoreSnapshots ==
    {[nodes |-> <<>>, edges |-> <<>>],
     [nodes |-> <<GraphNode(1, <<"vendor">>)>>, edges |-> <<GraphEdge(1, 1)>>],
     [nodes |-> <<GraphNode(1, <<"invoice">>), GraphNode(2, <<"vendor">>),
                  GraphNode(3, <<"invoice">>)>>,
      edges |-> <<GraphEdge(1, 2), GraphEdge(2, 3)>>]}

CoreCanvases ==
    {[offsetWidth |-> 600, offsetHeight |-> 384, hasContext |-> TRUE],
     [offsetWidth |-> 300, offsetHeight |-> 384, hasContext |-> TRUE]}

\* The snapshots laid out repeatedly: those above and one with type tags
\* that are integer indices.
RelayoutSnapshots ==
    CoreSnapshots
    \cup {[nodes |-> <<GraphNode(1, <<"vendor">>), GraphNode(2, <<"1", "0">>),
                       GraphNode(3, <<"7">>)>>,
           edges |-> <<GraphEdge(1, 2)>>]}

InitRelayout ==
    /\ InitGraph
    /\ canvas \in {Some(c) : c \in CoreCanvases}

NextRelayout ==
    \/ \E d \in RelayoutSnapshots : GraphFetchSettle(Http(200, <<"OK">>, "object", d))
    \/ GraphFetchSettle(Rejected(FetchError))
    \/ RenderEffect
    \/ \E c \in CoreCanvases : Remount(c)

SpecRelayout == InitRelayout /\ [][NextRelayout]_vars

\* The graph view mounted repeatedly on any canvas, in a document that stays:
\* React runs the render effect that a commit scheduled before it renders or
\* unmounts the component again, hence the fairness condition.  (A document
\* that is replaced drops the effect, see ReloadPage.)
LiveGraphOutcomes ==
    {Rejected(FetchError), Http(200, <<"OK">>, "invalid", NoData),
     Http(200, <<"OK">>, "null", NoData),
     Http(200, <<"OK">>, "object",
          [nodes |-> <<GraphNode(1, <<"constructor">>)>>, edges |-> <<>>])}
    \cup {Http(200, <<"OK">>, "object", d) : d \in CoreSnapshots}

\* Mounts of one behaviour of SpecGraphLive.
MaxLiveMounts == 2

NextGraphLive ==
    \/ \E o \in LiveGraphOutcomes : GraphFetchSettle(o)
    \/ RenderEffect
    \/ graphMounts < MaxLiveMounts /\ \E c \in Canvases : Remount(c)

SpecGraphLive == InitGraph /\ [][NextGraphLive]_vars /\ WF_vars(RenderEffect)

\* ------------------------------- the chat sidebar next to the graph view
\* The application shows the chat sidebar on every page, so also on the one
\* that shows the KnowledgeGraph view; the view mounts anew, in the same
\* window, when the page is visited again, the sidebar stays.
AppChatOutcomes ==
    {Rejected(FetchError),
     Http(200, <<"OK">>, "object",
          Data(Some(<<"A">>), None, None, None, Some(ThreeSources), Some(<<"/graph">>)))}

AppGraphOutcomes ==
    {Rejected(FetchError), Http(500, <<>>, "object", NoData),
     Http(200, <<"OK">>, "invalid", NoData)}
    \cup {Http(200, <<"OK">>, "object", d) : d \in CoreSnapshots}

\* Mounts of the graph view in one behaviour of SpecApp.
MaxAppMounts == 2

InitApp ==
    /\ ChatMounted
    /\ variant \in {"sidebar", "sources"}
    /\ presenter = None
    /\ NoUploadDialog
    /\ GraphMounted
    /\ canvas \in {Some(c) : c \in CoreCanvases}

NextApp ==
    \/ \E t \in Texts : SetInput(t)
    \/ HandleSend(MaxReplySends)
    \/ \E i \in 1..MaxReplySends, o \in AppChatOutcomes : Settle(i, o)
    \/ SetIsOpen
    \/ SetShowSources
    \/ \E o \in AppGraphOutcomes : GraphFetchSettle(o)
    \/ RenderEffect
    \/ graphMounts < MaxAppMounts /\ Remount(canvas[1])

SpecApp == InitApp /\ [][NextApp]_vars

\* ------------------------------------------------- PDFUpload, the dialog
\* Uploads of one behaviour of SpecUpload.
MaxUploads == 2

\* A File: its name as pieces, the last one the extension, and its MIME type.
UploadFile(name, type) == [name |-> name, type |-> type]

Files ==
    {UploadFile(<<"a", ".pdf">>, <<"application/pdf">>),
     UploadFile(<<"B", ".PDF">>, <<>>),
     UploadFile(<<"c", ".png">>, <<"image/", "png">>),
     UploadFile(<<"d", ".webp">>, <<>>),
     UploadFile(<<"e", ".txt">>, <<"text/plain">>),
     UploadFile(<<"f", ".pdf">>, <<"image/", "png">>)}

\* String.prototype.toLowerCase on the pieces of a name.
LowerPiece(c) ==
    IF c = ".PDF" THEN ".pdf" ELSE IF c = "B" THEN "b" ELSE c

ToLowerCase(str) == [j \in 1..Len(str) |-> LowerPiece(str[j])]

\* String.prototype.endsWith / startsWith for one piece.
EndsWith(str, piece) == str # <<>> /\ str[Len(str)] = piece

StartsWithPiece(str, piece) == str # <<>> /\ str[1] = piece

ImageExtensions == <<".jpg", ".jpeg", ".png", ".gif", ".bmp", ".webp">>

\* Lines 88-91.
IsPDF(f) == f.type = <<"application/pdf">> \/ EndsWith(ToLowerCase(f.name), ".pdf")

IsImage(f) ==
    \/ StartsWithPiece(f.type, "image/")
    \/ \E j \in 1..Len(ImageExtensions) : EndsWith(ToLowerCase(f.name), ImageExtensions[j])

DataTypes == {"invoice", "transaction"}

\* The endpoint of lines 135-137.
Endpoint(type) ==
    IF type = "pdf" THEN <<"http://localhost:8000/api/v1/ingest/pdf">>
    ELSE <<"http://localhost:8000/api/v1/ingest/image">>

\* How the POST can settle.
UploadOutcomes ==
    {Rejected(FetchError),
     Http(200, <<"OK">>, "object", Data(None, None, Some(<<"Ingested">>), None, None, None)),
     Http(200, <<"OK">>, "invalid", NoData),
     Http(200, <<"OK">>, "null", NoData),
     Http(400, <<"Bad Request">>, "object", Data(None, None, None, Some(<<"Bad file">>), None, None)),
     Http(500, <<"Internal Server Error">>, "object", NoData),
     Http(500, <<"Internal Server Error">>, "invalid", NoData),
     Http(500, <<"Internal Server Error">>, "null", NoData)}

\* The message of the error that reaches the catch block, if any: lines
\* 139-149.  A body that parses to null makes the read of .detail or of
\* .message throw.
UploadThrown(o) ==
    IF o.kind = "rejected" THEN Some(o.errmsg)
    ELSE IF ~Ok(o.status)
         THEN IF o.parse = "null" THEN Some(NullTypeErrorText)
              ELSE LET detail == IF o.parse = "invalid" THEN Some(<<"Unknown error">>)
                                 ELSE o.data.detail
                   IN  IF Truthy(detail) THEN detail
                       ELSE Some(<<"Upload failed: ">> \o o.statusText)
    ELSE IF o.parse = "invalid" THEN Some(SyntaxErrorText)
    ELSE IF o.parse = "null" THEN Some(NullTypeErrorText)
    ELSE None

\* The state of PDFUpload after it mounted with prop cb.
UploadMounted(cb) ==
    /\ open = FALSE
    /\ file = None
    /\ fileType = "pdf"
    /\ dataType = "invoice"
    /\ uploading = FALSE
    /\ uploadStatus = "idle"
    /\ errorMessage = <<>>
    /\ toast = None
    /\ onUploadComplete = cb
    /\ uploadRequest = None
    /\ reloadPending = FALSE
    /\ timers = {}

InitUpload ==
    /\ NoChat
    /\ presenter = None
    /\ NoGraphView
    /\ \E cb \in {"absent", "reload"} : UploadMounted(cb)
    /\ uploads = 0
    /\ uploadSettled = None
    /\ uploadEvent = "mount"
    /\ firedTimer = 0

\* onOpenChange of the Dialog: the trigger button opens it; Escape, the X
\* and a click outside close it.  The Cancel button (disabled while
\* uploading) closes it too.
SetOpen(b) ==
    /\ open # b
    /\ open' = b
    /\ uploadEvent' = IF b THEN "open" ELSE "close"
    /\ UNCHANGED <<chatVars, presenter, graphVars, file, fileType, dataType, uploading,
                   uploadStatus, errorMessage, toast, onUploadComplete, uploadRequest,
                   reloadPending, timers, uploads, uploadSettled, firedTimer>>

\* handleFileChange, lines 84-113, with the file picked (None: the picker
\* was dismissed).
HandleFileChange(selectedFile) ==
    /\ uploadEvent' = "fileChange"
    /\ IF selectedFile = None
       THEN UNCHANGED <<file, fileType, uploadStatus, errorMessage, toast>>
       ELSE IF ~IsPDF(selectedFile[1]) /\ ~IsImage(selectedFile[1])
       THEN /\ toast' = Some(<<"Invalid file type">>)
            /\ UNCHANGED <<file, fileType, uploadStatus, errorMessage>>
       ELSE /\ fileType' = IF IsPDF(selectedFile[1]) THEN "pdf" ELSE "image"
            /\ file' = selectedFile
            /\ uploadStatus' = "idle"
            /\ errorMessage' = <<>>
            /\ UNCHANGED toast
    /\ UNCHANGED <<chatVars, presenter, graphVars, open, dataType, uploading,
                   onUploadComplete, uploadRequest, reloadPending, timers, uploads,
                   uploadSettled, firedTimer>>

\* onValueChange of the data type Select.
SetDataType(d) ==
    /\ dataType' = d
    /\ uploadEvent' = "setDataType"
    /\ UNCHANGED <<chatVars, presenter, graphVars, open, file, fileType, uploading,
                   uploadStatus, errorMessage, toast, onUploadComplete, uploadRequest,
                   reloadPending, timers, uploads, uploadSettled, firedTimer>>

\* handleUpload up to the await of fetch: lines 115-142.
HandleUpload ==
    /\ uploadEvent' = "handleUpload"
    /\ IF file = None
       THEN /\ toast' = Some(<<"No file selected">>)
            /\ UNCHANGED <<uploading, uploadStatus, errorMessage, uploadRequest, uploads>>
       ELSE /\ uploads < MaxUploads
            /\ uploading' = TRUE
            /\ uploadStatus' = "idle"
            /\ errorMessage' = <<>>
            /\ uploadRequest' = Some([file |-> file[1], data_type |-> dataType,
                                      endpoint |-> Endpoint(fileType)])
            /\ uploads' = uploads + 1
            /\ UNCHANGED toast
    /\ UNCHANGED <<chatVars, presenter, graphVars, open, file, fileType, dataType,
                   onUploadComplete, reloadPending, timers, uploadSettled, firedTimer>>

\* The rest of handleUpload, lines 139-181: the POST settles with outcome o.
\* The callback of the dashboard calls window.location.reload(); the handler
\* runs to its end and commits before the document is replaced.
UploadSettle(o) ==
    /\ uploadRequest # None
    /\ uploadRequest' = None
    /\ uploadSettled' = Some(o)
    /\ uploadEvent' = "settle"
    /\ uploading' = FALSE
    /\ UNCHANGED <<chatVars, presenter, graphVars, open, fileType, dataType,
                   onUploadComplete, uploads, firedTimer>>
    /\ IF UploadThrown(o) # None
       THEN /\ uploadStatus' = "error"
            /\ errorMessage' = UploadThrown(o)[1]
            /\ toast' = Some(<<"Upload failed">>)
            /\ UNCHANGED <<file, timers, reloadPending>>
       ELSE /\ uploadStatus' = "success"
            /\ toast' = Some(<<"Upload successful">>)
            /\ file' = None
            /\ reloadPending' = (reloadPending \/ onUploadComplete = "reload")
            /\ timers' = timers \cup {uploads}
            /\ UNCHANGED errorMessage

\* The document is replaced: PDFUpload mounts anew with the same prop; the
\* timers and the request of the old document are gone.
ReloadDialog ==
    /\ reloadPending
    /\ reloadPending' = FALSE
    /\ open' = FALSE
    /\ file' = None
    /\ fileType' = "pdf"
    /\ dataType' = "invoice"
    /\ uploading' = FALSE
    /\ uploadStatus' = "idle"
    /\ errorMessage' = <<>>
    /\ toast' = None
    /\ uploadRequest' = None
    /\ timers' = {}
    /\ uploadEvent' = "reload"
    /\ UNCHANGED <<onUploadComplete, uploads, uploadSettled, firedTimer>>

\* The reload of a page that shows the dialog alone.
Reload ==
    /\ ReloadDialog
    /\ UNCHANGED <<chatVars, presenter, graphVars>>

\* The callback of setTimeout, lines 163-166, set by upload k.
TimerFires(k) ==
    /\ k \in timers
    /\ timers' = timers \ {k}
    /\ open' = FALSE
    /\ uploadStatus' = "idle"
    /\ uploadEvent' = "timer"
    /\ firedTimer' = k
    /\ UNCHANGED <<chatVars, presenter, graphVars, file, fileType, dataType, uploading,
                   errorMessage, toast, onUploadComplete, uploadRequest, reloadPending,
                   uploads, uploadSettled>>

\* The controls of the dialog exist while it is open; the file input and the
\* Select are disabled while uploading, the upload button also without a file.
NextUpload ==
    \/ \E b \in BOOLEAN : SetOpen(b)
    \/ open /\ ~uploading /\ \E f \in {None} \cup {Some(x) : x \in Files} : HandleFileChange(f)
    \/ open /\ ~uploading /\ \E d \in DataTypes : SetDataType(d)
    \/ open /\ ~uploading /\ file # None /\ HandleUpload
    \/ \E o \in UploadOutcomes : UploadSettle(o)
    \/ \E k \in 1..MaxUploads : TimerFires(k)
    \/ Reload

SpecUpload == InitUpload /\ [][NextUpload]_vars

\* ------------------------------------------------------ DashboardPage
\* The dashboard mounts PDFUpload with a callback that reloads the document
\* and, below the cards, KnowledgeGraph.
InitPage ==
    /\ NoChat
    /\ presenter = None
    /\ GraphMounted
    /\ canvas \in {Some(c) : c \in CoreCanvases}
    /\ UploadMounted("reload")
    /\ uploads = 0
    /\ uploadSettled = None
    /\ uploadEvent = "mount"
    /\ firedTimer = 0

\* The reload of the dashboard: the document is replaced at a moment the
\* browser chooses and both components mount anew.  A render effect of the
\* old document that was still scheduled never runs.
ReloadPage(c) ==
    /\ ReloadDialog
    /\ MountGraph(c)
    /\ UNCHANGED <<chatVars, presenter, nodePositions, layoutRuns>>

NextPage ==
    \/ \E o \in AppGraphOutcomes : GraphFetchSettle(o)
    \/ RenderEffect
    \/ \E b \in BOOLEAN : SetOpen(b)
    \/ open /\ ~uploading /\ \E f \in {None} \cup {Some(x) : x \in Files} : HandleFileChange(f)
    \/ open /\ ~uploading /\ \E d \in DataTypes : SetDataType(d)
    \/ open /\ ~uploading /\ file # None /\ HandleUpload
    \/ \E o \in UploadOutcomes : UploadSettle(o)
    \/ \E k \in 1..MaxUploads : TimerFires(k)
    \/ \E c \in CoreCanvases : ReloadPage(c)

SpecPage == InitPage /\ [][NextPage]_vars

\* ------------------------------------------------------------ properties
Last(s) == s[Len(s)]

\* A step in which a request settles / in which a send is accepted.
SettleStep == Len(inflight') < Len(inflight)

SendStep == issued' = issued + 1

\* C1: in every reachable state at most one query request is outstanding.
AtMostOneOutstanding == Len(inflight) <= 1

\* A send was invoked with a non-blank text while a request was outstanding.
SendWhilePendingSeen ==
    event = "handleSend" /\ Len(inflight) = 1 /\ Trim(input) # <<>>

\* C2: when the request of an accepted send settles, whatever the outcome, the
\* transcript is exactly 2 longer than it was before that send: the user
\* message and then one assistant message.
SettledSendAddsTwo ==
    [][SettleStep =>
          /\ Len(messages') = sentAt + 2
          /\ messages'[sentAt + 1].role = "user"
          /\ messages'[sentAt + 2].role = "assistant"]_vars

\* The second exchange of a session ended in the catch block.
SecondSendFailedSeen ==
    /\ event = "settle" /\ issued = 2 /\ Len(messages) = sentAt + 2
    /\ settled # None /\ settled[1].kind = "rejected"

\* C3: a send whose text trims to empty, or that is invoked while pending,
\* changes neither transcript, pending flag, last error nor input text, and
\* issues no request.
RejectedSendChangesNothing ==
    [][(event' = "handleSend" /\ (Trim(input) = <<>> \/ loading)) =>
          UNCHANGED <<messages, loading, error, input, inflight, issued>>]_vars

\* A send of white space only was invoked in an idle session that already
\* holds an exchange.
BlankSendSeen ==
    /\ event = "handleSend" /\ ~loading /\ issued = 1
    /\ input # <<>> /\ Trim(input) = <<>>

\* C4: pending becomes true only by an accepted send, stays true exactly
\* while its request is outstanding, becomes false when that request
\* settles (in the try block or in the catch block), and an idle session
\* accepts a non-blank send.
IdleSendingIdle ==
    [][/\ (loading <=> Len(inflight) = 1)
       /\ (~loading /\ loading') => (event' = "handleSend" /\ Trim(input) # <<>> /\ SendStep)
       /\ (loading /\ ~loading') => SettleStep
       /\ SettleStep => (~loading' /\ inflight' = <<>>)
       /\ (event' = "handleSend" /\ ~loading /\ Trim(input) # <<>>) => (loading' /\ SendStep)]_vars

\* After a failed exchange the sidebar accepted the next send.
SendAfterFailureSeen ==
    /\ variant = "sidebar" /\ loading /\ issued = 2
    /\ messages[sentAt].content = RemediationSidebar

\* --------------------------------------------- what a reply should contain
StartsWith(s, p) == Len(p) <= Len(s) /\ SubSeq(s, 1, Len(p)) = p

Contains(s, p) == \E k \in 0..(Len(s) - Len(p)) : SubSeq(s, k + 1, k + Len(p)) = p

\* The fixed remediation text of the mounted component.
Remediation ==
    IF variant = "qa" THEN RemediationQA
    ELSE IF variant = "sidebar" THEN RemediationSidebar
    ELSE RemediationSources

\* The first defined, non-empty value of a list of optional strings.
RECURSIVE FirstNonEmpty(_)
FirstNonEmpty(fields) ==
    IF fields = <<>> THEN None
    ELSE IF Head(fields) # None /\ Len(Head(fields)[1]) > 0 THEN Head(fields)
    ELSE FirstNonEmpty(Tail(fields))

\* The request that settled last got a success status and a JSON object.
SuccessSettled ==
    /\ event = "settle" /\ settled # None
    /\ settled[1].kind = "response" /\ settled[1].status = 200 /\ settled[1].parse = "object"

\* The request that settled last failed by a network error, an unparseable
\* body or a non-success status.
FailureSettled ==
    /\ event = "settle" /\ settled # None
    /\ \/ settled[1].kind = "rejected"
       \/ settled[1].parse = "invalid"
       \/ settled[1].status # 200

\* The fields the component reads for the answer, in its order.
AnswerFields(d) ==
    IF variant = "qa" THEN <<d.answer, d.response, d.message>> ELSE <<d.answer, d.response>>

EmptyResponseText == <<"Empty response from API">>

\* e is the error text of failure o.
IsErrorTextOf(o, e) ==
    IF o.kind = "rejected" THEN e = o.errmsg
    ELSE IF o.status = 200 THEN e = SyntaxErrorText
    ELSE IF o.parse = "null" THEN e = NullTypeErrorText
    ELSE IF o.parse = "object" /\ o.data.detail # None /\ o.data.detail[1] # <<>> THEN e = o.data.detail[1]
    ELSE IF o.parse = "invalid" /\ o.statusText # <<>> THEN e = o.statusText
    ELSE Contains(e, <<ToString(o.status)>>) /\ Contains(e, o.statusText)

\* C5 (as claimed): a success response without an answer (the answer field,
\* and the response and message fields read in its place, missing, empty or
\* blank) gets the remediation message, in every component.
BlankAnswerIsFailure ==
    LET Blank(f) == f = None \/ Trim(f[1]) = <<>>
    IN  (/\ SuccessSettled
         /\ Blank(settled[1].data.answer)
         /\ Blank(settled[1].data.response)
         /\ Blank(settled[1].data.message))
            => StartsWith(Last(messages).content, Remediation)

\* C6 (as claimed): after a network error, an unparseable body or a
\* non-success status the assistant message holds the remediation text and
\* the error text of the failure, in every component.
FailureShowsErrorText ==
    FailureSettled =>
        LET c == Last(messages).content
            e == SubSeq(c, Len(Remediation) + 1, Len(c))
        IN  StartsWith(c, Remediation) /\ e # <<>> /\ IsErrorTextOf(settled[1], e)

\* C7: the transcript only grows at its end, and an accepted send always
\* appends its user message, also when the same text is already there.
TranscriptAppendOnly ==
    [][/\ Len(messages) <= Len(messages')
       /\ SubSeq(messages', 1, Len(messages)) = messages
       /\ SendStep => messages' = Append(messages, [role |-> "user", content |-> Trim(input),
                                                     sources |-> None, graphUrl |-> None])]_vars

\* The same text was sent twice and a viewer or the panel was toggled since.
SameTextTwiceSeen ==
    /\ event = "ui" /\ ~loading /\ issued = 2
    /\ messages[sentAt + 1].role = "user" /\ messages[sentAt - 1].role = "user"
    /\ messages[sentAt + 1].content = messages[sentAt - 1].content

\* C8: a user message is appended by the send step itself, after a reply (or
\* the greeting, or nothing); a reply is appended by the settle step right
\* after the user message whose text its request carried.
RepliesFollowTheirMessage ==
    [][/\ SendStep =>
            /\ messages' # <<>>
            /\ messages' = Append(messages, Last(messages'))
            /\ Last(messages').role = "user"
            /\ Last(messages').content = Last(inflight').query
            /\ (messages # <<>> => Last(messages).role = "assistant")
       /\ SettleStep =>
            /\ messages' = Append(messages, Last(messages'))
            /\ Last(messages').role = "assistant"
            /\ Last(messages).role = "user"
            /\ Last(messages).content = inflight[1].query
       /\ (Len(messages') # Len(messages)) => (SendStep \/ SettleStep)]_vars

\* Two exchanges with different texts have completed.
TwoExchangesSeen ==
    /\ event = "settle" /\ issued = 2 /\ inflight = <<>>
    /\ messages[sentAt + 1].content = <<"b">> /\ messages[sentAt - 1].content = <<"a">>
    /\ messages[sentAt].role = "assistant" /\ messages[sentAt + 2].role = "assistant"

\* C9 (as claimed): on success the answer shown is the first non-empty of
\* answer, response, message, in every component.
SamePrecedenceEverywhere ==
    (SuccessSettled
       /\ FirstNonEmpty(<<settled[1].data.answer, settled[1].data.response,
                          settled[1].data.message>>) # None)
        => Last(messages).content =
              FirstNonEmpty(<<settled[1].data.answer, settled[1].data.response,
                              settled[1].data.message>>)[1]

\* C9 (amended): QAPage takes the first non-empty of answer, response,
\* message, the two sidebars the first non-empty of answer, response (they
\* never read message); a later field is used only when the earlier ones are
\* absent or empty, and the fixed fallback text when none is non-empty.  The
\* sidebars show what was taken, QAPage shows it unless it is white space.
AnswerPrecedence ==
    SuccessSettled =>
        LET picked == FirstNonEmpty(AnswerFields(settled[1].data))
            shown == Last(messages).content
        IN  /\ (picked # None /\ (variant # "qa" \/ Trim(picked[1]) # <<>>)) => shown = picked[1]
            /\ picked = None => shown = Fallback

\* QAPage showed the message field because answer and response were empty.
MessageFieldShownSeen ==
    /\ SuccessSettled /\ variant = "qa"
    /\ settled[1].data.answer = None /\ settled[1].data.response = Some(<<>>)
    /\ Last(messages).content = <<"M">>

\* C10 (as claimed): every session starts with one assistant greeting and
\* pending false, and holds 3 messages after its first successful send.
SeededStart ==
    /\ event = "mount" =>
          (Len(messages) = 1 /\ messages[1].role = "assistant" /\ ~loading)
    /\ (SuccessSettled /\ issued = 1 /\ ~StartsWith(Last(messages).content, Remediation))
          => Len(messages) = 3

\* C10 (amended): the two sidebars start with exactly the assistant
\* greeting and hold 3 messages after the first successful send; QAPage
\* starts with an empty transcript and holds 2; all start with pending false.
StartByVariant ==
    /\ event = "mount" =>
          /\ ~loading /\ inflight = <<>>
          /\ messages = IF variant = "qa" THEN <<>>
                        ELSE <<[role |-> "assistant", content |-> Greeting,
                                sources |-> None, graphUrl |-> None]>>
    /\ (SuccessSettled /\ issued = 1 /\ ~StartsWith(Last(messages).content, Remediation))
          => Len(messages) = IF variant = "qa" THEN 2 ELSE 3

\* The first send of a QAPage session succeeded.
FirstQAExchangeSeen ==
    /\ SuccessSettled /\ variant = "qa" /\ issued = 1
    /\ Len(messages) = 2 /\ Last(messages).content = <<"A">>


\* The number of user messages of a transcript: the sends that were accepted.
RECURSIVE UserCount(_)
UserCount(ms) ==
    IF ms = <<>> THEN 0
    ELSE UserCount(Tail(ms)) + (IF Head(ms).role = "user" THEN 1 ELSE 0)

\* C11: an accepted send issues exactly one request, which carries the trimmed
\* text; nothing but an accepted send issues a request, in particular not the
\* settling of a failed one; the requests issued are as many as the accepted
\* sends.
OneRequestPerAcceptedSend ==
    [][/\ (event' = "handleSend" /\ Accepts(input, loading)) =>
             /\ issued' = issued + 1
             /\ inflight' = Append(inflight, Last(inflight'))
             /\ Last(inflight').query = Trim(input)
             /\ Last(inflight').query # <<>>
       /\ issued' # issued => (event' = "handleSend" /\ Accepts(input, loading))
       /\ inflight' # inflight =>
             \/ event' = "handleSend" /\ Accepts(input, loading)
             \/ event' = "settle" /\ Len(inflight') = Len(inflight) - 1
       /\ issued' = UserCount(messages')]_vars

\* A request failed, nothing was issued in its place, and the user typed on.
NoRetryAfterFailureSeen ==
    /\ event = "setInput" /\ issued = 1 /\ inflight = <<>>
    /\ settled # None /\ ThrownError(variant, settled[1]) # None
    /\ Trim(input) # input

\* C12: while the request of a send is unsettled the session stays pending:
\* no step other than the settling of that request clears the pending flag,
\* appends a message, issues a request or drops the one in flight.
PendingUntilSettled ==
    [][(inflight # <<>> /\ event' # "settle") =>
          /\ loading /\ loading'
          /\ messages' = messages
          /\ inflight' = inflight
          /\ issued' = issued]_vars

\* The panel was closed while the request was in flight.
ClosedWhilePendingSeen ==
    event = "ui" /\ inflight # <<>> /\ loading /\ ~isOpen /\ variant # "qa"


\* The rows a presenter shows are the first n triples of its list, in order.
ShowsFirst(p, n) ==
    /\ Len(View(p).rows) = n
    /\ \A j \in 1..n : View(p).rows[j] = Row(p.kind, p.sources[1][j])

\* C13: a presenter with a list of len triples and preview size 3 (full) or
\* 2 (compact) renders nothing when len = 0 or the list is absent, the first
\* min(len, preview) rows when collapsed and all len rows when expanded; it
\* starts collapsed and every use of the toggle flips it.
PresenterRows ==
    /\ [](LET p == presenter[1]
              len == IF p.sources = None THEN 0 ELSE Len(p.sources[1])
              size == IF p.kind = "full" THEN 3 ELSE 2
          IN  /\ len = 0 => (~View(p).shown /\ View(p).rows = <<>>)
              /\ (len > 0 /\ ~p.isExpanded) => (View(p).shown /\ ShowsFirst(p, Min(len, size)))
              /\ (len > 0 /\ p.isExpanded) => (View(p).shown /\ ShowsFirst(p, len))
              /\ event = "mount" => ~p.isExpanded)
    /\ [][event' = "setIsExpanded" =>
             presenter'[1].isExpanded = ~presenter[1].isExpanded]_vars

\* A full viewer of four triples was expanded and shows the fourth row.
FourthRowShownSeen ==
    /\ presenter # None /\ presenter[1].kind = "full" /\ presenter[1].isExpanded
    /\ Len(View(presenter[1]).rows) = 4
    /\ event = "setIsExpanded"


\* A step of a mounted viewer: its list is expanded or collapsed, its overlay
\* opened or dismissed.
ViewerStep ==
    /\ event' = "ui" /\ showSources' = showSources /\ isOpen' = isOpen
    /\ viewers' # viewers

\* C14 as stated: the overlay of every message that carries a graph-view
\* reference can be opened.
GraphReferenceCanBeOpened ==
    \A i \in 1..(2 * MaxSends + 1) :
        (i <= Len(messages) /\ Truthy(messages[i].graphUrl)) => ENABLED SetShowGraph(i)

\* C14, amended: the overlay of a message can be opened or dismissed exactly
\* when its viewer is mounted (source display on, non-empty triple list) and
\* the message carries a graph-view reference; an open overlay can always be
\* dismissed; opening, dismissing, expanding and collapsing change neither
\* transcript, pending flag nor last error.
OverlayOfMountedViewer ==
    /\ [](\A i \in 1..(2 * MaxSends + 1) :
            /\ (ENABLED SetShowGraph(i)) <=>
                   /\ i <= Len(messages)
                   /\ Rendered(variant, messages[i], showSources)
                   /\ Truthy(messages[i].graphUrl)
            /\ (i <= Len(messages) /\ viewers[i] # None /\ viewers[i][1].showGraph)
                   => ENABLED SetShowGraph(i))
    /\ [][ViewerStep => UNCHANGED <<messages, loading, error, input, inflight, issued>>]_vars

\* The overlay of an answer was opened while the next request was in flight.
OverlayOpenWhilePendingSeen ==
    /\ event = "ui" /\ loading /\ showSources
    /\ \E i \in 1..Len(messages) : viewers[i] # None /\ viewers[i][1].showGraph


\* The index of the first node of type t in a node list.
FirstIndexOf(nodes, t) ==
    CHOOSE x \in 1..Len(nodes) :
        nodes[x].type = t /\ \A y \in 1..(x - 1) : nodes[y].type # t

\* Type s is enumerated before type t among the types of a node list:
\* integer indices by value and ahead of the other tags, which go by first
\* appearance.
TypeBefore(nodes, s, t) ==
    IF IsIndexKey(s) /\ IsIndexKey(t) THEN IndexValue(s) < IndexValue(t)
    ELSE IF IsIndexKey(s) \/ IsIndexKey(t) THEN IsIndexKey(s)
    ELSE FirstIndexOf(nodes, s) < FirstIndexOf(nodes, t)

\* The position map that a node list with unique identifiers and a drawing
\* area determine, node by node: the ring is the number of types enumerated
\* before the node's type, the slot its rank among the nodes of its type.
PositionsOf(nodes, width, height) ==
    [id \in {nodes[j].id : j \in 1..Len(nodes)} |->
        LET j == CHOOSE x \in 1..Len(nodes) : nodes[x].id = id
            types == {nodes[x].type : x \in 1..Len(nodes)}
            ring == Cardinality({s \in types : TypeBefore(nodes, s, nodes[j].type)})
            slot == Cardinality({x \in 1..(j - 1) : nodes[x].type = nodes[j].type})
            slots == Cardinality({x \in 1..Len(nodes) : nodes[x].type = nodes[j].type})
        IN  [cx2 |-> width, cy2 |-> height,
             r30 |-> Min(width, height) * (5 + 3 * ring),
             turn |-> <<slot, slots>>]]

\* C15: two runs of the layout on the same node list and the same drawing
\* area give the same position map, whatever was laid out between them, and
\* no state survives from one run to the next: the map of every run holds
\* the nodes of its own snapshot and no others, each at the point that the
\* node list and the area alone determine.
LayoutDeterministic ==
    /\ \A a, b \in 1..MaxRuns :
          (/\ a <= Len(layoutRuns) /\ b <= Len(layoutRuns)
           /\ layoutRuns[a].data.nodes = layoutRuns[b].data.nodes
           /\ layoutRuns[a].width = layoutRuns[b].width
           /\ layoutRuns[a].height = layoutRuns[b].height)
          => layoutRuns[a].positions = layoutRuns[b].positions
    /\ \A a \in 1..MaxRuns :
          a <= Len(layoutRuns) =>
             layoutRuns[a].positions =
                 PositionsOf(layoutRuns[a].data.nodes, layoutRuns[a].width,
                             layoutRuns[a].height)

\* The same one-node snapshot was laid out before and after a larger one
\* whose type tags are enumerated out of their order of appearance.
SameSnapshotAgainSeen ==
    /\ Len(layoutRuns) = 3
    /\ layoutRuns[1].data = layoutRuns[3].data
    /\ layoutRuns[1].width = layoutRuns[3].width
    /\ Len(layoutRuns[1].data.nodes) = 1
    /\ Len(layoutRuns[2].data.nodes) = 3
    /\ layoutRuns[2].data.nodes[3].type = <<"7">>
    /\ layoutRuns[2].positions[NodeId(3)].r30 < layoutRuns[2].positions[NodeId(1)].r30

\* Ring, slot and slot count of the j-th node of a list: the rank of its type
\* by first appearance, its rank among the nodes of its type, their number.
FirstOfType(nodes, j) == CHOOSE x \in 1..j : nodes[x].type = nodes[j].type /\
                            \A y \in 1..(x - 1) : nodes[y].type # nodes[j].type

RingOf(nodes, j) == Cardinality({nodes[x].type : x \in 1..(FirstOfType(nodes, j) - 1)})

SlotOf(nodes, j) == Cardinality({x \in 1..(j - 1) : nodes[x].type = nodes[j].type})

SlotsOf(nodes, j) == Cardinality({x \in 1..Len(nodes) : nodes[x].type = nodes[j].type})

\* The last run of the layout, once there is one.
LastRun == layoutRuns[Len(layoutRuns)]

\* C16: every node is placed on ring k, slot i of n: k the rank of its type
\* by first appearance in the node list, n the number of nodes of that type,
\* i its rank among them; radius min(width, height) / 3 * (0.5 + 0.3 k), angle
\* 2 pi i / n, about the centre of the area.
RingBySlotPlacement ==
    layoutRuns # <<>> =>
        LET nodes == LastRun.data.nodes
        IN  \A j \in 1..Len(nodes) :
                /\ nodes[j].id \in DOMAIN LastRun.positions
                /\ LastRun.positions[nodes[j].id] =
                       [cx2 |-> LastRun.width, cy2 |-> LastRun.height,
                        r30 |-> Min(LastRun.width, LastRun.height) * (5 + 3 * RingOf(nodes, j)),
                        turn |-> <<SlotOf(nodes, j), SlotsOf(nodes, j)>>]

\* Two positions are one point of the plane.
SamePoint(p, q) ==
    /\ p.cx2 = q.cx2 /\ p.cy2 = q.cy2 /\ p.r30 = q.r30
    /\ p.r30 = 0 \/ p.turn[1] * q.turn[2] = q.turn[1] * p.turn[2]

\* C17: for every snapshot with unique node identifiers and every drawing
\* area, no two nodes are given the same point and no ring has radius zero.
DistinctPoints ==
    layoutRuns # <<>> =>
        LET nodes == LastRun.data.nodes
            pos(j) == LastRun.positions[nodes[j].id]
        IN  /\ \A i, j \in 1..Len(nodes) : i # j => ~SamePoint(pos(i), pos(j))
            /\ \A j \in 1..Len(nodes) : pos(j).r30 > 0

\* The calls of one kind among the draw calls of the last repaint.
Calls(op) == LET Is(c) == c.op = op IN SelectSeq(painted, Is)

\* The edges of a snapshot whose source and target are both nodes of it.
ConnectedEdges(data) ==
    LET ids == {data.nodes[j].id : j \in 1..Len(data.nodes)}
        Connected(e) == e.source \in ids /\ e.target \in ids
    IN  SelectSeq(data.edges, Connected)

MarkerColourAndLabel ==
    painted # <<>> =>
        LET nodes == graphData[1].nodes
            colour(t) == IF t = <<"vendor">> THEN "#3b82f6"
                         ELSE IF t = <<"invoice">> THEN "#10b981"
                         ELSE IF t = <<"transaction">> THEN "#f59e0b"
                         ELSE IF t = <<"product">> THEN "#8b5cf6"
                         ELSE "#6b7280"
        IN  /\ Len(Calls("fill")) = Len(nodes)
            /\ Len(Calls("fillText")) = Len(nodes)
            /\ \A j \in 1..Len(nodes) :
                  /\ Calls("fill")[j].points = <<nodePositions[nodes[j].id]>>
                  /\ Calls("fill")[j].style = colour(nodes[j].type)
                  /\ Calls("fillText")[j].points = <<nodePositions[nodes[j].id]>>
                  /\ Len(Calls("fillText")[j].text) = Min(15, Len(nodes[j].label))
                  /\ \A c \in 1..Len(Calls("fillText")[j].text) :
                        Calls("fillText")[j].text[c] = nodes[j].label[c]


\* A step in which the render effect runs.
RenderStep == renderDue /\ ~renderDue'

\* The drawing surface is unavailable: no canvas element, no 2d context, or
\* a container without width or height.
SurfaceUnavailable ==
    \/ CanvasRef = None
    \/ ~canvas[1].hasContext
    \/ canvas[1].offsetWidth = 0
    \/ canvas[1].offsetHeight = 0

\* C21: a run of the render effect on an unavailable surface lays nothing
\* out and makes no draw call.
UnavailableSurfaceNoOp ==
    [][(RenderStep /\ SurfaceUnavailable) =>
          UNCHANGED <<nodePositions, painted, layoutRuns>>]_vars


\* The ways the snapshot fetch fails: network error, non-success status,
\* unparseable body.
IsGraphFailure(o) ==
    o.kind = "rejected" \/ o.status < 200 \/ o.status > 299 \/ o.parse = "invalid"

\* A step in which the snapshot fetch settles.
GraphSettleStep == graphFetch = "pending" /\ graphFetch' = "settled"

\* C22: a snapshot fetch that fails ends in the inline error state: the error
\* text is set and shown in place of the canvas, loading is false, no snapshot
\* is kept and nothing is painted, no chat transcript changes and no fetch is
\* issued again.
GraphFailureShownInline ==
    /\ [](graphSettled # None /\ IsGraphFailure(graphSettled[1]) =>
             /\ Truthy(graphError) /\ ~graphLoading /\ graphData = None
             /\ CanvasRef = None /\ painted = <<>> /\ ~renderDue
             /\ graphFetches = 1 /\ graphFetch = "settled")
    /\ [][(GraphSettleStep /\ IsGraphFailure(graphSettled'[1])) =>
             UNCHANGED <<messages, loading, inflight, issued, graphFetches>>]_vars

\* The snapshot fetch failed on its body and the error card is shown.
GraphParseFailureSeen ==
    /\ graphSettled = Some(Http(200, <<"OK">>, "invalid", NoData))
    /\ graphError = Some(SyntaxErrorText)
    /\ ~graphLoading /\ CanvasRef = None /\ painted = <<>>

\* A step of the chat / of the graph view.
ChatStep == chatVars' # chatVars

GraphStep == graphVars' # graphVars

\* C23: no step belongs to both: the snapshot fetch settling, the render
\* effect and a new mount of the view leave the chat session as it is, a send and a chat completion leave
\* the graph view as it is; once both requests have settled each side is in
\* the state its own outcome gives, whichever settled first.
GraphAndChatIndependent ==
    /\ [][/\ GraphStep => UNCHANGED chatVars
          /\ ChatStep => UNCHANGED graphVars]_vars
    /\ []((graphSettled # None /\ settled # None /\ inflight = <<>>) =>
             /\ Last(messages) = AssistantMessage(variant, settled[1])
             /\ ~loading
             /\ graphError = (IF IsGraphFailure(graphSettled[1])
                              THEN GraphThrown(graphSettled[1]) ELSE None)
             /\ graphData = (IF IsGraphFailure(graphSettled[1])
                             THEN None ELSE Some(graphSettled[1].data))
             /\ ~graphLoading)

\* The chat request settled while the snapshot fetch was still outstanding.
ChatSettledBeforeGraphSeen ==
    /\ event = "settle" /\ settled # None /\ graphFetch = "pending"
    /\ graphLoading /\ ~loading


\* C24: the session token of the Q&A page never changes after the mount, and
\* every request the page issues carries it; the sidebars send none.
SessionTokenFixed ==
    [][/\ sessionId' = sessionId
       /\ SendStep =>
             Last(inflight').session_id =
                 (IF variant = "qa" THEN Some(sessionId) ELSE None)]_vars

\* The Q&A page sent its second request after the first had failed.
SecondRequestSameTokenSeen ==
    /\ variant = "qa" /\ sessionId = "session-2"
    /\ event = "handleSend" /\ issued = 2 /\ Len(inflight) = 1
    /\ settled # None /\ settled[1].kind = "rejected"
    /\ inflight[1].session_id = Some("session-2")


\* One fetch per mount; loading exactly while that fetch is outstanding;
\* never both a snapshot and an error.
OneFetchPerMount ==
    /\ graphFetches = graphMounts
    /\ graphLoading <=> graphFetch = "pending"
    /\ ~(graphData # None /\ graphError # None)

\* The snapshot held by the view has been laid out and painted.
SnapshotPainted ==
    /\ painted # <<>> /\ layoutRuns # <<>>
    /\ LastRun.data = graphData[1]
    /\ nodePositions = LastRun.positions

\* C25: each mount issues one snapshot fetch, loading is true exactly until
\* it settles, snapshot and error are never both set, and a snapshot that was
\* fetched is eventually laid out and painted on the canvas.  The canvas is
\* taken to yield a 2d context (without one the render step is a no-op, see
\* C21), so a behaviour that violates this violates the claim as it stands.
SnapshotEventuallyPainted ==
    /\ []OneFetchPerMount
    /\ (graphData # None /\ canvas[1].hasContext) ~> SnapshotPainted


\* The messages the transcript is seeded with, and the pending request.
SeedLen == Len(InitialMessages(variant))

PendingCount == IF loading THEN 1 ELSE 0

\* C26: after the seed the transcript alternates user, assistant, ...; its
\* last message is a user message exactly while a request is pending; its
\* length is seed + 2 * (completed sends) + (1 if pending).
TranscriptAlternates ==
    /\ Len(messages) = SeedLen + 2 * (issued - PendingCount) + PendingCount
    /\ \A j \in 1..SeedLen : messages[j].role = "assistant"
    /\ \A j \in (SeedLen + 1)..Len(messages) :
          messages[j].role = (IF (j - SeedLen) % 2 = 1 THEN "user" ELSE "assistant")
    /\ loading <=> (messages # <<>> /\ Last(messages).role = "user")
    /\ UserCount(messages) = issued

\* A seeded transcript of one completed exchange and one pending message.
SeededThreeAndPendingSeen ==
    /\ variant = "sidebar" /\ SeedLen = 1 /\ loading /\ issued = 2
    /\ Len(messages) = 4 /\ Last(messages).role = "user"
    /\ messages[3].role = "assistant"

\* C27: on the Q&A page the last error is null while a request is pending and
\* after a request that completed with an answer; after a failed request it is
\* the text of that failure, the one the remediation message shows, until the
\* next accepted send; only an accepted send and a settling request change it.
LastErrorIsLastFailure ==
    /\ [](variant = "qa" =>
            /\ loading => error = None
            /\ (~loading /\ settled = None) => error = None
            /\ (~loading /\ settled # None) =>
                 IF StartsWith(Last(messages).content, RemediationQA)
                 THEN /\ error # None
                      /\ Last(messages).content = RemediationQA \o error[1]
                      /\ (settled[1].kind = "rejected" \/ settled[1].parse = "invalid"
                          \/ settled[1].status # 200) => IsErrorTextOf(settled[1], error[1])
                 ELSE error = None)
    /\ [][error' # error =>
            \/ SendStep /\ error' = None
            \/ SettleStep /\ error' # None /\ StartsWith(Last(messages').content, RemediationQA)]_vars

\* The error of a failed request is still shown after the input was edited.
ErrorKeptUntilNextSendSeen ==
    /\ variant = "qa" /\ event = "setInput" /\ ~loading /\ input # <<>>
    /\ settled # None /\ settled[1].kind = "rejected"
    /\ error = Some(FetchError)


\* A presenter of kind k given the triple list and the graph reference of
\* message m, with the overlay asked for.
PresenterOf(k, m, g) ==
    [kind |-> k, sources |-> m.sources, graphUrl |-> g, isExpanded |-> FALSE,
     showGraph |-> TRUE]

\* C28: the overlay is shown only with a graph reference, a non-empty triple
\* list and after the user opened it without dismissing it since; a presenter
\* whose list is empty or absent exposes neither control nor overlay, whatever
\* its graph reference, and so does the presenter of every failed send's
\* message.
GraphOnlyThroughTriples ==
    /\ [](LET p == presenter[1]
              v == View(p)
              listed == p.sources # None /\ Len(p.sources[1]) > 0
          IN  /\ v.overlay => (listed /\ Truthy(p.graphUrl) /\ p.showGraph /\ v.graphButton)
              /\ v.graphButton => (listed /\ Truthy(p.graphUrl))
              /\ ~listed => (~v.graphButton /\ ~v.overlay /\ ~p.showGraph /\ ~ENABLED OpenGraph)
              /\ p.showGraph => event \in {"openGraph", "setIsExpanded"}
              /\ \A c \in Variants, o \in CoreOutcomes, k \in ViewerKinds, g \in GraphUrlProps :
                    ThrownError(c, o) # None =>
                        View(PresenterOf(k, AssistantMessage(c, o), g)) = NothingRendered)
    /\ [][/\ (~presenter[1].showGraph /\ presenter'[1].showGraph) => event' = "openGraph"
          /\ event' = "closeGraph" => (View(presenter[1]).overlay /\ ~View(presenter'[1]).overlay)
          /\ (presenter[1].showGraph /\ event' # "closeGraph") => presenter'[1].showGraph]_vars

\* The Graph control of an expanded list of four triples opened the overlay.
OverlayOpenedThroughTriplesSeen ==
    /\ event = "openGraph" /\ View(presenter[1]).overlay
    /\ presenter[1].isExpanded /\ Len(View(presenter[1]).rows) = 4
    /\ presenter[1].graphUrl = Some(<<"/graph">>)


\* C29: a step that opens or closes the panel or switches the source display
\* leaves transcript, pending flag, request in flight, input and last error
\* as they are; a request that settles while the panel is closed appends its
\* one reply and is gone; nothing else changes the transcript of a closed
\* panel, so the transcript found on reopening is the one left plus the reply.
PanelKeepsSession ==
    [][/\ (isOpen' # isOpen \/ showSources' # showSources) =>
             UNCHANGED <<messages, loading, inflight, issued, input, error, settled>>
       /\ (SettleStep /\ ~isOpen) =>
             /\ ~isOpen'
             /\ messages' = Append(messages, Last(messages'))
             /\ Last(messages').role = "assistant"
             /\ sentAt + 1 = Len(messages)
             /\ Last(messages).role = "user"
             /\ inflight' = <<>> /\ ~loading'
       /\ (~isOpen /\ ~SettleStep /\ ~SendStep) => messages' = messages]_vars

\* The panel of the plain sidebar was opened and shows the seed, the message
\* and the reply of a failed request.
ReplyFoundOnReopeningSeen ==
    /\ variant = "sidebar" /\ event = "ui" /\ isOpen /\ ~loading
    /\ settled # None /\ settled[1].kind = "rejected"
    /\ Len(messages) = 3 /\ messages[3].content = RemediationSidebar


\* A step in which the POST of an upload settles.
UploadSettleStep == uploadRequest # None /\ uploadRequest' = None

\* C30: the status shown is that of the most recent upload: a failed upload
\* leaves the error status with its message, which stay, with the dialog
\* open, until the user picks a file, starts an upload or closes the dialog;
\* the timer set by a successful upload neither closes the dialog nor resets
\* the status once a later upload was started.  A reload of the document
\* ends the dialog and is no step of it.
StatusOfMostRecentUpload ==
    [][/\ (UploadSettleStep /\ UploadThrown(uploadSettled'[1]) # None) =>
             /\ uploadStatus' = "error"
             /\ errorMessage' = UploadThrown(uploadSettled'[1])[1]
             /\ open' = open
       /\ (uploadStatus = "error"
           /\ uploadEvent' \notin {"fileChange", "handleUpload", "close", "reload"}) =>
             /\ uploadStatus' = "error"
             /\ errorMessage' = errorMessage
             /\ open => open'
       /\ (uploadEvent' = "timer" /\ firedTimer' < uploads) =>
             /\ open' = open
             /\ uploadStatus' = uploadStatus]_vars

====
